---------------------------- MODULE Spec2Model ----------------------------
(***************************************************************************)
(* Climate Risk Indicator & Alert Engine (OnaccClimateRisk-V2).            *)
(*                                                                         *)
(* Three state machines over one set of variables, each leaving the        *)
(* variables of the other two at their idle values:                        *)
(*   SpecRisk   assess_drought_risk, called on an IndicatorSet and called  *)
(*              again with another precipitation deficit;                  *)
(*   SpecSeg    the scan loop of detect_drought_periods, one day a step;   *)
(*   SpecGroup  generate_group_alert: the sample loop, the aggregation,    *)
(*              the alert text and its parsing by the display code.        *)
(*                                                                         *)
(* Units.  spi_mean is in tenths (-20 is -2.0); precipitation and the dry  *)
(* threshold are in hundredths of a millimetre (10 is 0.1 mm); deficits,   *)
(* heat stress and soil moisture are percentages; scores are points.       *)
(***************************************************************************)
EXTENDS Integers, Sequences, FiniteSets, TLC

VARIABLES
    \* assess_drought_risk
    indicators,         \* the IndicatorSet passed in, or NoneVal
    risk_assessment,    \* the RiskAssessment returned, NoneVal before the call
    risk_prev,          \* the previous call's [indicators, assessment], or NoneVal
    \* detect_drought_periods
    precipitation,      \* climate_data['precipitation']
    dry_threshold,      \* dry_threshold argument
    seg_i,              \* loop index i (0-based, as enumerate gives it)
    current_period,     \* current_period, NoneVal for None
    drought_periods,    \* drought_periods
    seg_pc,             \* "loop" | "done" ("idle" when not called)
    \* generate_group_alert and the display of its result
    group,              \* [name, type, total]: group_name, group_type, len(group_localities)
    api_key,            \* AlertGenerator.api_key ("" when DEEPSEEK_API_KEY is unset)
    sample_localities,  \* the sampled localities, in iteration order
    sample_pos,         \* how many of them the loop has handled
    sample_outcomes,    \* what get_climate_data did for each handled sample
    group_indicators,   \* group_indicators
    high_risk_count,    \* high_risk_count
    total_risk_score,   \* total_risk_score
    group_alert,        \* the value returned: a GroupAlert, or NoneVal
    parsed_alert,       \* parse_group_alert_message(alert['alerte'])
    grp_pc,             \* "sampling" | "returned" | "displayed"
    \* generate_alerts_by_group
    group_by,           \* the group_by argument
    groups,             \* localities_df.groupby(...): [name, total] per group
    batch_i,            \* how many groups the loop has handled
    batch_runs,         \* what generate_group_alert met for each handled group
    alerts,             \* alerts
    batch_pc,           \* "called" | "loop" | "returned" | "raised"
    \* calculate_drought_indicators
    climate_data,       \* the climate_data argument, or NoneVal
    gamma_fits,         \* what the scipy calls did for each fitted index
    indicator_set,      \* the IndicatorSet returned, NoneVal before the call
    ind_pc,             \* "called" | "returned"
    \* parse_group_alert_message
    parse_text,         \* the alert_text argument of the parser, split into lines
    parse_result,       \* the dict returned, NoneVal before the call
    parse_pc,           \* "called" | "returned"
    \* forecasts and simulated data
    np_random,          \* numpy's global generator: [seed, pos]
    month_end_today,    \* whether the date of the calls is the last of a month
    fc_calls,           \* how many operations have run
    fc_prev,            \* the operation before the last: [op, args, value, risk]
    fc_last,            \* the last operation, NoneVal before any
    \* FloodCalculator.calculate_risk
    weather_data,       \* the weather_data argument, NoneVal for None
    locality_data,      \* the locality_data argument
    flood_result,       \* [alert_level, risk_score, details], NoneVal before the call
    flood_pc            \* "ready" | "done" ("idle" when not called)

riskVars == <<indicators, risk_assessment, risk_prev>>
segVars  == <<precipitation, dry_threshold, seg_i, current_period,
              drought_periods, seg_pc>>
grpVars  == <<group, api_key, sample_localities, sample_pos, sample_outcomes,
              group_indicators, high_risk_count, total_risk_score,
              group_alert, parsed_alert, grp_pc>>
batchVars == <<group_by, groups, batch_i, batch_runs, alerts, batch_pc>>
indVars  == <<climate_data, gamma_fits, indicator_set, ind_pc>>
parseVars == <<parse_text, parse_result, parse_pc>>
forecastVars == <<np_random, month_end_today, fc_calls, fc_prev, fc_last>>
floodVars == <<weather_data, locality_data, flood_result, flood_pc>>
vars     == <<riskVars, segVars, grpVars, batchVars, indVars, parseVars, forecastVars,
              floodVars>>

\* What the actions of one machine leave alone.
notRiskVars == <<segVars, grpVars, batchVars, indVars, parseVars, forecastVars, floodVars>>
notSegVars == <<riskVars, grpVars, batchVars, indVars, parseVars, forecastVars, floodVars>>
notGrpVars == <<riskVars, segVars, batchVars, indVars, parseVars, forecastVars, floodVars>>
notBatchVars == <<riskVars, segVars, grpVars, indVars, parseVars, forecastVars, floodVars>>
notIndVars == <<riskVars, segVars, grpVars, batchVars, parseVars, forecastVars, floodVars>>
notParseVars == <<riskVars, segVars, grpVars, batchVars, indVars, forecastVars, floodVars>>
notForecastVars == <<riskVars, segVars, grpVars, batchVars, indVars, parseVars, floodVars>>
notFloodVars == <<riskVars, segVars, grpVars, batchVars, indVars, parseVars, forecastVars>>

(***************************************************************************)
(* Python's None.                                                          *)
(***************************************************************************)
NoneVal == [is_none |-> TRUE]
IsNone(x) == "is_none" \in DOMAIN x


(***************************************************************************)
(* dict.get(key, default)                                                  *)
(***************************************************************************)
Get(d, key, default) == IF key \in DOMAIN d THEN d[key] ELSE default

(***************************************************************************)
(*                      drought_calculator.py                              *)
(***************************************************************************)

\* get_default_risk_assessment(): what assess_drought_risk returns when
\* anything in its try block raises.
get_default_risk_assessment ==
    [risk_level |-> "Indéterminé",
     risk_score |-> 0,
     risk_color |-> "gray",
     factors |-> <<"Données insuffisantes pour l'analyse">>,
     spi_value |-> 0,
     precipitation_deficit |-> 0,
     avg_temperature |-> 25,
     recommendations |-> <<"Collecter plus de données pour une analyse fiable">>]

\* generate_recommendations(risk_level, indicators)
generate_recommendations(risk_level, ind) ==
    LET base ==
            IF risk_level \in {"Élevé", "Très Élevé"}
            THEN <<"Activation des plans d'urgence sécheresse",
                   "Restrictions d'eau obligatoires",
                   "Mise en place de systèmes d'irrigation d'urgence",
                   "Surveillance renforcée des ressources en eau",
                   "Préparation à la distribution d'aide humanitaire">>
            ELSE IF risk_level = "Modéré"
            THEN <<"Sensibilisation des agriculteurs aux économies d'eau",
                   "Promotion des pratiques agricoles résilientes",
                   "Surveillance accrue des indicateurs climatiques",
                   "Planification des mesures de restriction volontaire">>
            ELSE <<"Surveillance de routine des paramètres climatiques",
                   "Maintien des bonnes pratiques de gestion de l'eau",
                   "Planification à long terme de l'adaptation climatique">>
        soil == IF Get(ind, "soil_moisture_mean", 100) < 30
                THEN <<"Irrigation de sauvegarde recommandée pour les cultures sensibles">>
                ELSE <<>>
        dry  == IF Get(ind, "consecutive_dry_days", 0) > 15
                THEN <<"Évaluation des besoins en fourrage pour le bétail">>
                ELSE <<>>
        heat == IF Get(ind, "heat_stress", 0) > 40
                THEN <<"Mise en place de zones d'ombre et d'abreuvement pour le bétail">>
                ELSE <<>>
    IN  base \o soil \o dry \o heat

\* One "risk_score += n; factors.append(text)" of assess_drought_risk.
AddFactor(acc, points, text) ==
    [risk_score |-> acc.risk_score + points, factors |-> Append(acc.factors, text)]

\* assess_drought_risk, "Évaluation basée sur le SPI" (spi_mean in tenths).
ScoreSpi(acc, spi_mean) ==
    IF spi_mean <= -20 THEN AddFactor(acc, 40, "SPI très bas (sécheresse extrême)")
    ELSE IF spi_mean <= -15 THEN AddFactor(acc, 30, "SPI bas (sécheresse sévère)")
    ELSE IF spi_mean <= -10 THEN AddFactor(acc, 20, "SPI modérément bas")
    ELSE IF spi_mean <= -5 THEN AddFactor(acc, 10, "SPI légèrement bas")
    ELSE acc

\* A deficit step that gives the severe band more points than the extreme one.
ScoreDeficitSwapped(acc, deficit) ==
    IF deficit > 60 THEN AddFactor(acc, 20, "Déficit pluviométrique extrême")
    ELSE IF deficit > 40 THEN AddFactor(acc, 30, "Déficit pluviométrique sévère")
    ELSE IF deficit > 20 THEN AddFactor(acc, 10, "Déficit pluviométrique modéré")
    ELSE acc

\* assess_drought_risk, "Déficit pluviométrique".
ScoreDeficit(acc, deficit) ==
    IF deficit > 60 THEN AddFactor(acc, 30, "Déficit pluviométrique extrême")
    ELSE IF deficit > 40 THEN AddFactor(acc, 20, "Déficit pluviométrique sévère")
    ELSE IF deficit > 20 THEN AddFactor(acc, 10, "Déficit pluviométrique modéré")
    ELSE acc

\* A dry-day step whose long-period test is >= 20 instead of > 20.
ScoreDryDaysInclusive(acc, dry_days) ==
    IF dry_days >= 20 THEN AddFactor(acc, 20, "Longue période sans pluie")
    ELSE IF dry_days > 10 THEN AddFactor(acc, 10, "Période sèche prolongée")
    ELSE acc

\* assess_drought_risk, "Jours secs consécutifs".
ScoreDryDays(acc, dry_days) ==
    IF dry_days > 20 THEN AddFactor(acc, 20, "Longue période sans pluie")
    ELSE IF dry_days > 10 THEN AddFactor(acc, 10, "Période sèche prolongée")
    ELSE acc

\* assess_drought_risk, "Stress thermique".
ScoreHeatStress(acc, heat_stress) ==
    IF heat_stress > 50 THEN AddFactor(acc, 10, "Fort stress thermique")
    ELSE acc

\* assess_drought_risk, "Humidité du sol".
ScoreSoilMoisture(acc, soil_moisture) ==
    IF soil_moisture < 20 THEN AddFactor(acc, 15, "Humidité du sol très critique")
    ELSE IF soil_moisture < 30 THEN AddFactor(acc, 10, "Humidité du sol faible")
    ELSE acc

\* A classification whose Élevé band starts at 60 instead of 50.
RiskLevelShifted(risk_score) ==
    IF risk_score >= 70 THEN [risk_level |-> "Très Élevé", color |-> "red"]
    ELSE IF risk_score >= 60 THEN [risk_level |-> "Élevé", color |-> "orange"]
    ELSE IF risk_score >= 30 THEN [risk_level |-> "Modéré", color |-> "yellow"]
    ELSE IF risk_score >= 15 THEN [risk_level |-> "Faible", color |-> "blue"]
    ELSE [risk_level |-> "Très Faible", color |-> "green"]

\* assess_drought_risk, "Détermination du niveau de risque".
RiskLevel(risk_score) ==
    IF risk_score >= 70 THEN [risk_level |-> "Très Élevé", color |-> "red"]
    ELSE IF risk_score >= 50 THEN [risk_level |-> "Élevé", color |-> "orange"]
    ELSE IF risk_score >= 30 THEN [risk_level |-> "Modéré", color |-> "yellow"]
    ELSE IF risk_score >= 15 THEN [risk_level |-> "Faible", color |-> "blue"]
    ELSE [risk_level |-> "Très Faible", color |-> "green"]

\* assess_drought_risk(indicators).  indicators = None makes indicators.get
\* raise inside the try block, and the except branch returns the default.
assess_drought_risk(ind) ==
    IF IsNone(ind) THEN get_default_risk_assessment
    ELSE
    LET spi_mean == Get(ind, "spi_mean", 0)
        deficit  == Get(ind, "precipitation_deficit", 0)
        s0 == [risk_score |-> 0, factors |-> <<>>]
        s1 == ScoreSpi(s0, spi_mean)
        s2 == ScoreDeficit(s1, deficit)
        s3 == ScoreDryDays(s2, Get(ind, "consecutive_dry_days", 0))
        s4 == ScoreHeatStress(s3, Get(ind, "heat_stress", 0))
        s5 == ScoreSoilMoisture(s4, Get(ind, "soil_moisture_mean", 50))
        lv == RiskLevel(s5.risk_score)
    IN  [risk_level |-> lv.risk_level,
         risk_score |-> s5.risk_score,
         risk_color |-> lv.color,
         factors |-> s5.factors,
         spi_value |-> spi_mean,
         precipitation_deficit |-> deficit,
         avg_temperature |-> Get(ind, "avg_temperature", 0),
         recommendations |-> generate_recommendations(lv.risk_level, ind)]

(***************************************************************************)
(* Inputs of assess_drought_risk: values on both sides of every threshold  *)
(* the scorer tests, the spec's worked example (-21, 65, 25, 55, 15), the  *)
(* empty dict (every .get takes its default) and None.                     *)
(***************************************************************************)
SpiVals      == {-21, -20, -19, -15, -14, -10, -9, -5, -4, 0}
DeficitVals  == {0, 20, 21, 40, 41, 60, 61, 65}
DryDaysVals  == {0, 10, 11, 20, 21, 25}
HeatVals     == {0, 50, 55}
SoilVals     == {15, 20, 29, 30, 50}

IndicatorSets ==
    [spi_mean : SpiVals, precipitation_deficit : DeficitVals,
     consecutive_dry_days : DryDaysVals, heat_stress : HeatVals,
     soil_moisture_mean : SoilVals, avg_temperature : {25}]

\* The IndicatorSet of the specification's end-to-end example.
ExampleIndicatorSet ==
    [spi_mean |-> -21, precipitation_deficit |-> 65, consecutive_dry_days |-> 25,
     heat_stress |-> 55, soil_moisture_mean |-> 15, avg_temperature |-> 25]

EmptyDict == <<>>

InitRisk ==
    /\ indicators \in IndicatorSets \cup {EmptyDict, NoneVal}
    /\ risk_assessment = NoneVal
    /\ risk_prev = NoneVal

IdleRisk ==
    /\ indicators = NoneVal
    /\ risk_assessment = NoneVal
    /\ risk_prev = NoneVal

\* The caller's risk_assessment = assess_drought_risk(drought_indicators).
AssessDroughtRisk ==
    /\ IsNone(risk_assessment)
    /\ risk_assessment' = assess_drought_risk(indicators)
    /\ UNCHANGED <<indicators, risk_prev>>
    /\ UNCHANGED notRiskVars

\* A second call on the same IndicatorSet with another precipitation deficit.
ReassessWithDeficit ==
    /\ ~IsNone(risk_assessment)
    /\ IsNone(risk_prev)
    /\ "precipitation_deficit" \in DOMAIN indicators
    /\ \E d \in DeficitVals :
          /\ indicators' = [indicators EXCEPT !.precipitation_deficit = d]
          /\ risk_assessment' = assess_drought_risk(indicators')
    /\ risk_prev' = [indicators |-> indicators, assessment |-> risk_assessment]
    /\ UNCHANGED notRiskVars


(***************************************************************************)
(*            app.py: ModernDroughtPlatform.detect_drought_periods         *)
(***************************************************************************)
MaxDays == 7

\* Daily precipitation in hundredths of a millimetre: none, 0.1 mm, 5 mm.
PrecipVals == {0, 10, 500}
\* dry_threshold: the default 0.1 mm, 1 mm and 2 mm.
ThresholdVals == {10, 100, 200}

\* The 10-day series of the end-to-end example, [0,0,0,0,0,5,0,0,0,0] mm.
ExampleSeries == <<0, 0, 0, 0, 0, 500, 0, 0, 0, 0>>

SeriesUpTo(n) == UNION {[1..k -> PrecipVals] : k \in 0..n}

\* climate_data['dates'][i]: consecutive days, numbered from 1.
DateAt(i) == i + 1

\* A quotient the code computes in floating point, kept exact as num/den.
Ratio(n, d) == [num |-> n, den |-> d]

\* An intensity read off the deficit alone.
assess_drought_intensity_of_deficit(duration, deficit) ==
    IF deficit.num > 10 * 100 * deficit.den THEN "extrême"
    ELSE IF deficit.num > 5 * 100 * deficit.den THEN "sévère"
    ELSE IF deficit.num > 2 * 100 * deficit.den THEN "modérée"
    ELSE "faible"

\* assess_drought_intensity(duration, deficit): intensity_score =
\* duration * deficit, in mm; deficit is a Ratio in hundredths of a mm.
assess_drought_intensity(duration, deficit) ==
    LET score_num == duration * deficit.num
        one_mm    == 100 * deficit.den
    IN  IF score_num > 10 * one_mm THEN "extrême"
        ELSE IF score_num > 5 * one_mm THEN "sévère"
        ELSE IF score_num > 2 * one_mm THEN "modérée"
        ELSE "faible"

\* The fields both closing branches add to current_period.
ClosePeriod(period, end_date, end_index, threshold) ==
    LET avg_precip  == Ratio(period.total_precip, period.dry_days)
        avg_deficit == Ratio(threshold * period.dry_days - period.total_precip,
                             period.dry_days)
    IN  [start_date   |-> period.start_date,
         start_index  |-> period.start_index,
         dry_days     |-> period.dry_days,
         total_precip |-> period.total_precip,
         end_date     |-> end_date,
         end_index    |-> end_index,
         avg_precip   |-> avg_precip,
         avg_deficit  |-> avg_deficit,
         intensity    |-> assess_drought_intensity(period.dry_days, avg_deficit)]

\* A dry-day test that counts a day at the threshold as dry.
IsDryDayInclusive(precip, threshold) == precip <= threshold

\* is_dry_day = precip < dry_threshold
IsDryDay(precip, threshold) == precip < threshold

\* "Ne garder que les périodes significatives (au moins 3 jours)"
IsSignificant(period) == period.dry_days >= 3

\* A final block that drops the period still open at the end of the data.
FinalPeriodsDropped(period, periods, n, threshold) == periods

\* "Gérer la période en cours à la fin des données"
FinalPeriods(period, periods, n, threshold) ==
    IF ~IsNone(period) /\ IsSignificant(period)
    THEN Append(periods, ClosePeriod(period, DateAt(n - 1), n - 1, threshold))
    ELSE periods

InitSeg ==
    /\ precipitation \in SeriesUpTo(MaxDays) \cup {ExampleSeries}
    /\ dry_threshold \in ThresholdVals
    /\ seg_i = 0
    /\ current_period = NoneVal
    /\ drought_periods = <<>>
    /\ seg_pc = "loop"

IdleSeg ==
    /\ precipitation = <<>>
    /\ dry_threshold = 10
    /\ seg_i = 0
    /\ current_period = NoneVal
    /\ drought_periods = <<>>
    /\ seg_pc = "idle"

\* One iteration of "for i, (date, precip) in enumerate(zip(dates, precipitation))".
ScanDay ==
    /\ seg_pc = "loop"
    /\ seg_i < Len(precipitation)
    /\ LET precip == precipitation[seg_i + 1]
           date   == DateAt(seg_i)
           is_dry_day == IsDryDay(precip, dry_threshold)
       IN  IF is_dry_day /\ IsNone(current_period)
           THEN /\ current_period' = [start_date   |-> date,
                                      start_index  |-> seg_i,
                                      dry_days     |-> 1,
                                      total_precip |-> precip]
                /\ UNCHANGED drought_periods
           ELSE IF is_dry_day /\ ~IsNone(current_period)
           THEN /\ current_period' =
                       [current_period EXCEPT
                           !.dry_days = @ + 1, !.total_precip = @ + precip]
                /\ UNCHANGED drought_periods
           ELSE IF ~is_dry_day /\ ~IsNone(current_period)
           THEN /\ drought_periods' =
                       IF IsSignificant(current_period)
                       THEN Append(drought_periods,
                                   ClosePeriod(current_period, date - 1,
                                               seg_i - 1, dry_threshold))
                       ELSE drought_periods
                /\ current_period' = NoneVal
           ELSE UNCHANGED <<current_period, drought_periods>>
    /\ seg_i' = seg_i + 1
    /\ UNCHANGED <<precipitation, dry_threshold, seg_pc>>
    /\ UNCHANGED notSegVars

\* The code after the loop, up to the first "return drought_periods".
FinishScan ==
    /\ seg_pc = "loop"
    /\ seg_i = Len(precipitation)
    /\ drought_periods' = FinalPeriods(current_period, drought_periods,
                                       Len(precipitation), dry_threshold)
    /\ seg_pc' = "done"
    /\ UNCHANGED <<precipitation, dry_threshold, seg_i, current_period>>
    /\ UNCHANGED notSegVars

(***************************************************************************)
(*                          alert_generator.py                             *)
(*                                                                         *)
(* Text.  A str is a sequence of tokens and a text a sequence of lines     *)
(* (what split('\n') gives).  A token is a run of characters that the      *)
(* operations below never cut: a tag with its colon, a blank run, a ';',   *)
(* a number, a piece of template wording without leading or trailing blank.*)
(***************************************************************************)
Indent == "        "
Blanks == {" ", Indent}

SetMin(S) == CHOOSE x \in S : \A y \in S : x <= y
SetMax(S) == CHOOSE x \in S : \A y \in S : y <= x

\* str.strip()
Strip(str) ==
    LET inked == {i \in 1..Len(str) : str[i] \notin Blanks}
    IN  IF inked = {} THEN <<>> ELSE SubSeq(str, SetMin(inked), SetMax(inked))

\* str.replace(tag, '')
Remove(str, tag) == SelectSeq(str, LAMBDA t : t # tag)

\* str.startswith(tag)
StartsWith(str, tag) == Len(str) >= 1 /\ str[1] = tag

\* str.split(';')
RECURSIVE Split(_)
Split(str) ==
    LET at == {i \in 1..Len(str) : str[i] = ";"}
    IN  IF at = {} THEN <<str>>
        ELSE <<SubSeq(str, 1, SetMin(at) - 1)>>
                 \o Split(SubSeq(str, SetMin(at) + 1, Len(str)))

\* '; '.join(items)
RECURSIVE Join(_)
Join(items) ==
    IF items = <<>> THEN <<>>
    ELSE IF Len(items) = 1 THEN <<items[1]>>
    ELSE <<items[1], ";", " ">> \o Join(Tail(items))

\* f"{x:.1f}" of the quotient r.num / r.den of two non-negative integers.
Format1f(r) ==
    LET tenths == (20 * r.num + r.den) \div (2 * r.den)
    IN  ToString(tenths \div 10) \o "." \o ToString(tenths % 10)

\* risk_templates of generate_fallback_group_alert.
risk_templates(group_name, group_type, avg_score) ==
    [tres_eleve |->
        [titre |-> <<"CRISE", " ", "-", " ", group_type, " ", group_name>>,
         evaluation |-> <<"Situation de crise avec un risque moyen de", " ",
                          Format1f(avg_score),
                          "%. Intervention coordonnée requise.">>,
         zones_prioritaires |-> <<"Toute la zone affectée",
                                  "Secteurs agricoles prioritaires",
                                  "Zones de concentration population">>,
         actions |-> <<"Plan d'urgence régional activé",
                       "Coordination inter-services renforcée",
                       "Ressources mutualisées",
                       "Communication unifiée">>,
         periode |-> <<"Immédiate - 30 jours">>,
         urgence |-> <<"CRITIQUE">>],
     eleve |->
        [titre |-> <<"ALERTE", " ", "-", " ", group_type, " ", group_name>>,
         evaluation |-> <<"Risque élevé (", Format1f(avg_score),
                          "%) nécessitant une action coordonnée.">>,
         zones_prioritaires |-> <<"Sous-régions les plus affectées",
                                  "Bassins versants critiques">>,
         actions |-> <<"Surveillance renforcée",
                       "Planification des restrictions",
                       "Coordination locale">>,
         periode |-> <<"15-45 jours">>,
         urgence |-> <<"ÉLEVÉE">>],
     modere |->
        [titre |-> <<"VIGILANCE", " ", "-", " ", group_type, " ", group_name>>,
         evaluation |-> <<"Situation sous surveillance (", Format1f(avg_score),
                          "%).">>,
         zones_prioritaires |-> <<"Points chauds identifiés">>,
         actions |-> <<"Monitoring continu", "Préparation des plans">>,
         periode |-> <<"1-2 mois">>,
         urgence |-> <<"MODÉRÉE">>]]

\* A lookup that falls back on the Élevé template.
FallbackTemplateEleve(templates, risk_level) ==
    IF risk_level = "Très Élevé" THEN templates.tres_eleve
    ELSE IF risk_level = "Modéré" THEN templates.modere
    ELSE templates.eleve

\* template = risk_templates.get(risk_level, risk_templates['Modéré'])
FallbackTemplate(templates, risk_level) ==
    IF risk_level = "Très Élevé" THEN templates.tres_eleve
    ELSE IF risk_level = "Élevé" THEN templates.eleve
    ELSE templates.modere

\* generate_fallback_group_alert(group_name, group_type, risk_level,
\* avg_score, indicators): the f-string, split at its line breaks.  It opens
\* with a line break, and every line after it carries the 8 blanks of the
\* source's indentation.
generate_fallback_group_alert(group_name, group_type, risk_level, avg_score, inds) ==
    LET template ==
            FallbackTemplate(risk_templates(group_name, group_type, avg_score),
                             risk_level)
    IN  << <<>>,
           <<Indent, "TITRE_GROUPE:", " ">> \o template.titre,
           <<Indent, "ÉVALUATION:", " ">> \o template.evaluation
               \o <<" ", "Basé sur l'analyse de", " ", ToString(Len(inds)), " ",
                    "localités échantillons.">>,
           <<Indent, "ZONES_PRIORITAIRES:", " ">> \o Join(template.zones_prioritaires),
           <<Indent, "ACTIONS_COORDONNÉES:", " ">> \o Join(template.actions),
           <<Indent, "PÉRIODE:", " ">> \o template.periode,
           <<Indent, "URGENCE:", " ">> \o template.urgence,
           <<Indent>> >>

\* The methods class AlertGenerator defines.
AlertGeneratorMethods ==
    {"__init__", "generate_alerts_by_group", "generate_group_alert",
     "generate_group_ai_alert", "create_group_alert_prompt",
     "generate_fallback_group_alert", "generate_group_recommendations",
     "format_risk_distribution", "get_spi_category"}

\* What a generative source answering in the prompt's format would return.
ApiResponse ==
    << <<"TITRE_GROUPE:", " ", "Alerte stratégique">>,
       <<"ÉVALUATION:", " ", "Évaluation stratégique">>,
       <<"ZONES_PRIORITAIRES:", " ", "Zone A", ";", " ", "Zone B">>,
       <<"ACTIONS_COORDONNÉES:", " ", "Action 1", ";", " ", "Action 2">>,
       <<"PÉRIODE:", " ", "30 jours">>,
       <<"URGENCE:", " ", "ÉLEVÉE">> >>

\* A generator whose source answers whenever a key is configured.
generate_group_ai_alert_answered(key, group_name, group_type, inds, risk_level, avg_score) ==
    IF key = ""
    THEN generate_fallback_group_alert(group_name, group_type, risk_level, avg_score, inds)
    ELSE ApiResponse

\* generate_group_ai_alert.  With no key the fallback text is returned at
\* once.  With a key, the prompt is built and self.call_deepseek_api(prompt)
\* is evaluated: looking up a method the class does not define raises
\* AttributeError, and the except branch returns the fallback text.
generate_group_ai_alert(key, group_name, group_type, inds, risk_level, avg_score) ==
    IF key = ""
    THEN generate_fallback_group_alert(group_name, group_type, risk_level, avg_score, inds)
    ELSE IF "call_deepseek_api" \in AlertGeneratorMethods
    THEN ApiResponse
    ELSE generate_fallback_group_alert(group_name, group_type, risk_level, avg_score, inds)

\* generate_group_recommendations(risk_level, group_type)
generate_group_recommendations(risk_level, group_type) ==
    IF risk_level = "Très Élevé" THEN
        [coordination |-> "Activation cellule de crise régionale",
         communication |-> "Alerte unifiée à toute la population",
         ressources |-> "Mobilisation ressources d'urgence",
         surveillance |-> "Monitoring horaire des indicateurs"]
    ELSE IF risk_level = "Élevé" THEN
        [coordination |-> "Réunion hebdomadaire des acteurs",
         communication |-> "Information ciblée aux agriculteurs",
         ressources |-> "Prépositionnement des ressources",
         surveillance |-> "Surveillance quotidienne renforcée"]
    ELSE IF risk_level = "Faible" THEN
        [coordination |-> "Réunion mensuelle",
         communication |-> "Information standard",
         ressources |-> "Maintenance routine",
         surveillance |-> "Contrôle périodique"]
    ELSE
        [coordination |-> "Point bi-hebdomadaire",
         communication |-> "Bulletin d'information régulier",
         ressources |-> "Évaluation des stocks",
         surveillance |-> "Monitoring standard"]

\* [x.strip() for x in text.split(';')]
StripEach(strs) == [i \in 1..Len(strs) |-> Strip(strs[i])]

\* One iteration of parse_group_alert_message's loop: the elif chain on one
\* line, updating the dict parsed_alert.
ParseLine(parsed, line) ==
    IF StartsWith(line, "TITRE_GROUPE:")
    THEN ("titre_groupe" :> Strip(Remove(line, "TITRE_GROUPE:"))) @@ parsed
    ELSE IF StartsWith(line, "ÉVALUATION:")
    THEN ("evaluation" :> Strip(Remove(line, "ÉVALUATION:"))) @@ parsed
    ELSE IF StartsWith(line, "ZONES_PRIORITAIRES:")
    THEN ("zones_prioritaires" :>
             StripEach(Split(Strip(Remove(line, "ZONES_PRIORITAIRES:"))))) @@ parsed
    ELSE IF StartsWith(line, "ACTIONS_COORDONNÉES:")
    THEN ("actions_coordonnees" :>
             StripEach(Split(Strip(Remove(line, "ACTIONS_COORDONNÉES:"))))) @@ parsed
    ELSE IF StartsWith(line, "PÉRIODE:")
    THEN ("periode" :> Strip(Remove(line, "PÉRIODE:"))) @@ parsed
    ELSE IF StartsWith(line, "URGENCE:")
    THEN ("urgence" :> Strip(Remove(line, "URGENCE:"))) @@ parsed
    ELSE parsed

\* parse_group_alert_message(alert_text)
RECURSIVE ParseLines(_, _)
ParseLines(parsed, lines) ==
    IF lines = <<>> THEN parsed
    ELSE ParseLines(ParseLine(parsed, Head(lines)), Tail(lines))

parse_group_alert_message(alert_text) == ParseLines(EmptyDict, alert_text)

(***************************************************************************)
(*                 AlertGenerator.generate_group_alert                     *)
(***************************************************************************)
MaxLocalities == 4

\* sample_size = min(3, len(group_localities))
SampleSize(total) == IF total < 3 THEN total ELSE 3

\* group_localities.sample(n=sample_size, random_state=42): sample_size
\* distinct localities of the group, in an order the generator fixes.
\* Localities are named by their position 1..total in the group.
Samples(total) ==
    {q \in [1..SampleSize(total) -> 1..total] :
        \A i, j \in 1..SampleSize(total) : i # j => q[i] # q[j]}

\* IndicatorSets calculate_drought_indicators may return for a sample,
\* scoring 0 (Très Faible), 30 (Modéré), 50 (Élevé) and 115 (Très Élevé).
SampleIndicatorSets ==
    {[spi_mean |-> 0, precipitation_deficit |-> 0, consecutive_dry_days |-> 0,
      heat_stress |-> 0, soil_moisture_mean |-> 50, avg_temperature |-> 25],
     [spi_mean |-> -10, precipitation_deficit |-> 21, consecutive_dry_days |-> 0,
      heat_stress |-> 0, soil_moisture_mean |-> 50, avg_temperature |-> 25],
     [spi_mean |-> -15, precipitation_deficit |-> 41, consecutive_dry_days |-> 0,
      heat_stress |-> 0, soil_moisture_mean |-> 50, avg_temperature |-> 25],
     ExampleIndicatorSet}

\* What happens to one sample inside the try block: get_climate_data
\* returns data and the indicators are computed ("ok"), returns a falsy
\* value ("nodata"), or an exception is raised before the append ("raise").
SampleOutcomes ==
    {[kind |-> "ok", ind |-> x] : x \in SampleIndicatorSets}
        \cup {[kind |-> "nodata", ind |-> NoneVal], [kind |-> "raise", ind |-> NoneVal]}

\* A loop body that records a failed sample as an entry of score 0.
AfterSampleKeepsFailures(acc, localite, outcome) ==
    LET ra == assess_drought_risk(outcome.ind)
    IN  [group_indicators |->
             Append(acc.group_indicators,
                    [localite |-> localite, risk_level |-> ra.risk_level,
                     risk_score |-> ra.risk_score, spi |-> 0, deficit |-> 0,
                     dry_days |-> 0]),
         total_risk_score |-> acc.total_risk_score + ra.risk_score,
         high_risk_count |->
             IF ra.risk_level \in {"Élevé", "Très Élevé"}
             THEN acc.high_risk_count + 1 ELSE acc.high_risk_count]

\* The body of "for _, locality in sample_localities.iterrows()": the three
\* accumulators after one sample.
AfterSample(acc, localite, outcome) ==
    IF outcome.kind = "ok"
    THEN LET drought_indicators == outcome.ind
             ra == assess_drought_risk(drought_indicators)
         IN  [group_indicators |->
                  Append(acc.group_indicators,
                         [localite |-> localite,
                          risk_level |-> ra.risk_level,
                          risk_score |-> ra.risk_score,
                          spi |-> Get(drought_indicators, "spi_mean", 0),
                          deficit |-> Get(drought_indicators, "precipitation_deficit", 0),
                          dry_days |-> Get(drought_indicators, "consecutive_dry_days", 0)]),
              total_risk_score |-> acc.total_risk_score + ra.risk_score,
              high_risk_count |->
                  IF ra.risk_level \in {"Élevé", "Très Élevé"}
                  THEN acc.high_risk_count + 1 ELSE acc.high_risk_count]
    ELSE acc

\* A cascade whose third rule asks for two high samples in five.
GroupRiskLevelCoarse(ratio, avg) ==
    IF 10 * ratio.num >= 7 * ratio.den \/ avg.num >= 70 * avg.den THEN "Très Élevé"
    ELSE IF 10 * ratio.num >= 4 * ratio.den \/ avg.num >= 50 * avg.den THEN "Élevé"
    ELSE IF 10 * ratio.num >= 4 * ratio.den \/ avg.num >= 30 * avg.den THEN "Modéré"
    ELSE "Faible"

\* A cascade that reads the average score only.
GroupRiskLevelAvgOnly(ratio, avg) ==
    IF avg.num >= 70 * avg.den THEN "Très Élevé"
    ELSE IF avg.num >= 50 * avg.den THEN "Élevé"
    ELSE IF avg.num >= 30 * avg.den THEN "Modéré"
    ELSE "Faible"

\* A cascade whose second rule needs both conditions.
GroupRiskLevelAnd(ratio, avg) ==
    IF 10 * ratio.num >= 7 * ratio.den \/ avg.num >= 70 * avg.den THEN "Très Élevé"
    ELSE IF 10 * ratio.num >= 4 * ratio.den /\ avg.num >= 50 * avg.den THEN "Élevé"
    ELSE IF 10 * ratio.num >= 2 * ratio.den \/ avg.num >= 30 * avg.den THEN "Modéré"
    ELSE "Faible"

\* "Détermination du niveau de risque du groupe": high_risk_ratio and
\* avg_risk_score are the exact quotients ratio.num/ratio.den, avg.num/avg.den.
GroupRiskLevel(ratio, avg) ==
    IF 10 * ratio.num >= 7 * ratio.den \/ avg.num >= 70 * avg.den THEN "Très Élevé"
    ELSE IF 10 * ratio.num >= 4 * ratio.den \/ avg.num >= 50 * avg.den THEN "Élevé"
    ELSE IF 10 * ratio.num >= 2 * ratio.den \/ avg.num >= 30 * avg.den THEN "Modéré"
    ELSE "Faible"

\* generate_group_alert from "if not group_indicators" to its return.  The
\* record leaves out date_generation (datetime.now()), which nothing reads.
GroupAlertOf(g, key, inds, count, total_score) ==
    IF inds = <<>> THEN NoneVal
    ELSE
    LET avg_risk_score  == Ratio(total_score, Len(inds))
        high_risk_ratio == Ratio(count, Len(inds))
        group_risk_level == GroupRiskLevel(high_risk_ratio, avg_risk_score)
        alert_message ==
            generate_group_ai_alert(key, g.name, g.type, inds, group_risk_level,
                                    avg_risk_score)
    IN  [groupe_nom |-> g.name,
         groupe_type |-> g.type,
         localites_echantillon |-> [i \in 1..Len(inds) |-> inds[i].localite],
         total_localites |-> g.total,
         periode_analyse |-> "30 jours",
         niveau_risque_groupe |-> group_risk_level,
         score_risque_moyen |-> avg_risk_score,
         ratio_risque_eleve |-> high_risk_ratio,
         indicateurs_echantillon |-> inds,
         alerte |-> alert_message,
         recommandations_prioritaires |->
             generate_group_recommendations(group_risk_level, g.type)]

Groups ==
    {[name |-> "Extrême-Nord", type |-> "region", total |-> n] : n \in 1..MaxLocalities}
        \cup {[name |-> "Soudano-sahélienne", type |-> "zone", total |-> n] :
                 n \in 1..MaxLocalities}

InitGroup ==
    /\ group \in Groups
    /\ api_key \in {"", "sk-key"}
    /\ sample_localities \in Samples(group.total)
    /\ sample_pos = 0
    /\ sample_outcomes = <<>>
    /\ group_indicators = <<>>
    /\ high_risk_count = 0
    /\ total_risk_score = 0
    /\ group_alert = NoneVal
    /\ parsed_alert = NoneVal
    /\ grp_pc = "sampling"

IdleGroup ==
    /\ group = [name |-> "", type |-> "", total |-> 0]
    /\ api_key = ""
    /\ sample_localities = <<>>
    /\ sample_pos = 0
    /\ sample_outcomes = <<>>
    /\ group_indicators = <<>>
    /\ high_risk_count = 0
    /\ total_risk_score = 0
    /\ group_alert = NoneVal
    /\ parsed_alert = NoneVal
    /\ grp_pc = "idle"

\* One iteration of the sample loop of generate_group_alert.
AnalyseSample ==
    /\ grp_pc = "sampling"
    /\ sample_pos < Len(sample_localities)
    /\ \E outcome \in SampleOutcomes :
          LET acc == AfterSample([group_indicators |-> group_indicators,
                                  high_risk_count |-> high_risk_count,
                                  total_risk_score |-> total_risk_score],
                                 sample_localities[sample_pos + 1], outcome)
          IN  /\ group_indicators' = acc.group_indicators
              /\ high_risk_count' = acc.high_risk_count
              /\ total_risk_score' = acc.total_risk_score
              /\ sample_outcomes' = Append(sample_outcomes, outcome)
    /\ sample_pos' = sample_pos + 1
    /\ UNCHANGED <<group, api_key, sample_localities, group_alert, parsed_alert,
                   grp_pc>>
    /\ UNCHANGED notGrpVars

\* generate_group_alert after the loop: aggregation, level, text, return.
ReturnGroupAlert ==
    /\ grp_pc = "sampling"
    /\ sample_pos = Len(sample_localities)
    /\ group_alert' = GroupAlertOf(group, api_key, group_indicators,
                                   high_risk_count, total_risk_score)
    /\ grp_pc' = "returned"
    /\ UNCHANGED <<group, api_key, sample_localities, sample_pos, sample_outcomes,
                   group_indicators, high_risk_count, total_risk_score,
                   parsed_alert>>
    /\ UNCHANGED notGrpVars

\* display_single_group_alert: parsed_alert = parse_group_alert_message(alert['alerte'])
DisplayGroupAlert ==
    /\ grp_pc = "returned"
    /\ ~IsNone(group_alert)
    /\ parsed_alert' = parse_group_alert_message(group_alert.alerte)
    /\ grp_pc' = "displayed"
    /\ UNCHANGED <<group, api_key, sample_localities, sample_pos, sample_outcomes,
                   group_indicators, high_risk_count, total_risk_score,
                   group_alert>>
    /\ UNCHANGED notGrpVars

(***************************************************************************)
(*               AlertGenerator.generate_alerts_by_group                   *)
(***************************************************************************)
MaxGroups == 2

\* generate_group_alert as one call: the sample loop over sample_localities
\* (outcomes[k] is what get_climate_data did for the k-th sample), then the
\* aggregation and the return value.
RECURSIVE SampleLoop(_, _, _, _)
SampleLoop(acc, locs, outcomes, k) ==
    IF k > Len(locs) THEN acc
    ELSE SampleLoop(AfterSample(acc, locs[k], outcomes[k]), locs, outcomes, k + 1)

generate_group_alert(g, key, locs, outcomes) ==
    LET acc == SampleLoop([group_indicators |-> <<>>, high_risk_count |-> 0,
                           total_risk_score |-> 0], locs, outcomes, 1)
    IN  GroupAlertOf(g, key, acc.group_indicators, acc.high_risk_count,
                     acc.total_risk_score)

\* What get_climate_data does for a sample of a batch: data scoring 0, data
\* scoring 115, no data, or an exception.
BatchSampleOutcomes ==
    {o \in SampleOutcomes :
        o.kind = "ok" =>
            o.ind \in {ExampleIndicatorSet,
                       [spi_mean |-> 0, precipitation_deficit |-> 0,
                        consecutive_dry_days |-> 0, heat_stress |-> 0,
                        soil_moisture_mean |-> 50, avg_temperature |-> 25]}}

\* What one call of generate_group_alert meets: the outcome of each sample,
\* and whether an exception leaves the call (raised outside the inner try, as
\* by group_localities.sample or by the handler's own locality['localite']).
GroupRuns(g) ==
    [outcomes : [1..SampleSize(g.total) -> BatchSampleOutcomes],
     raises : BOOLEAN]

\* The sample of a group of the batch: its first SampleSize localities.
BatchSample(g) == [k \in 1..SampleSize(g.total) |-> k]

\* A loop body that appends whatever generate_group_alert returned.
AppendGroupAlertAlways(alert_list, alert) == Append(alert_list, alert)

\* "if group_alert: alerts.append(group_alert)"
AppendGroupAlert(alert_list, alert) ==
    IF IsNone(alert) THEN alert_list ELSE Append(alert_list, alert)

\* The body of "for i, (group_name_value, group_localities) in
\* enumerate(groups)": alerts after one group.  An exception leaving
\* generate_group_alert is caught by "except Exception" and the loop continues.
AfterGroup(alert_list, g, key, gtype, run) ==
    IF run.raises THEN alert_list
    ELSE AppendGroupAlert(alert_list,
             generate_group_alert([name |-> g.name, type |-> gtype,
                                   total |-> g.total],
                                  key, BatchSample(g), run.outcomes))

\* groupby yields the groups in key order, each key once.
GroupNames == <<"Adamaoua", "Centre", "Est", "Littoral", "Nord">>

GroupLists ==
    UNION {{[k \in 1..n |-> [name |-> GroupNames[k], total |-> t[k]]] :
               t \in [1..n -> {1, 2}]} : n \in 0..MaxGroups}

\* The selectors the UI passes (app.py group_mapping).
GroupBySelectors == {"region", "zone", "localite"}

InitBatch ==
    /\ group_by \in GroupBySelectors
    /\ groups \in GroupLists
    /\ batch_i = 0
    /\ batch_runs = <<>>
    /\ alerts = <<>>
    /\ batch_pc = "called"

IdleBatch ==
    /\ group_by = ""
    /\ groups = <<>>
    /\ batch_i = 0
    /\ batch_runs = <<>>
    /\ alerts = <<>>
    /\ batch_pc = "idle"

\* group_by == 'region' or 'zone': groupby, then the loop.
GroupLocalities ==
    /\ batch_pc = "called"
    /\ group_by \in {"region", "zone"}
    /\ batch_pc' = "loop"
    /\ UNCHANGED <<group_by, groups, batch_i, batch_runs, alerts>>
    /\ UNCHANGED notBatchVars

\* else: return self.generate_alerts_for_all_localities(...).  The attribute
\* lookup raises AttributeError when the class has no such method; nothing
\* around the call catches it.
DetailedMode ==
    /\ batch_pc = "called"
    /\ group_by \notin {"region", "zone"}
    /\ batch_pc' = IF "generate_alerts_for_all_localities" \in AlertGeneratorMethods
                   THEN "returned" ELSE "raised"
    /\ UNCHANGED <<group_by, groups, batch_i, batch_runs, alerts>>
    /\ UNCHANGED notBatchVars

\* One iteration of the loop over the groups.
AnalyseGroup ==
    /\ batch_pc = "loop"
    /\ batch_i < Len(groups)
    /\ \E run \in GroupRuns(groups[batch_i + 1]) :
          /\ alerts' = AfterGroup(alerts, groups[batch_i + 1], api_key, group_by, run)
          /\ batch_runs' = Append(batch_runs, run)
    /\ batch_i' = batch_i + 1
    /\ UNCHANGED <<group_by, groups, batch_pc>>
    /\ UNCHANGED notBatchVars

\* "return alerts" after the loop.
ReturnAlerts ==
    /\ batch_pc = "loop"
    /\ batch_i = Len(groups)
    /\ batch_pc' = "returned"
    /\ UNCHANGED <<group_by, groups, batch_i, batch_runs, alerts>>
    /\ UNCHANGED notBatchVars

(***************************************************************************)
(*          drought_calculator.py: calculate_drought_indicators            *)
(*                                                                         *)
(* Precipitation and et0 are in hundredths of a millimetre, temperatures   *)
(* in degrees, soil moisture and humidity in percent.  A value the code    *)
(* computes as a quotient is a Ratio; Num(n) is the number n.              *)
(***************************************************************************)
MaxSeries == 7

Num(n) == Ratio(n, 1)

RECURSIVE SumSeq(_)
SumSeq(s) == IF s = <<>> THEN 0 ELSE Head(s) + SumSeq(Tail(s))

SumSquares(s) == SumSeq([k \in 1..Len(s) |-> s[k] * s[k]])

\* np.mean(s) of a non-empty s
Mean(s) == Ratio(SumSeq(s), Len(s))

\* (x - np.mean(w)) / std "if std > 0 else 0", with std = np.std(w) "if
\* len(w) > 1 else 1".  The quotient is kept as the deviation dev and the
\* variance var it is divided by the square root of.
ZScore(x, w) ==
    LET n   == Len(w)
        dev == Ratio(n * x - SumSeq(w), n)
        var == IF n > 1 THEN Ratio(n * SumSquares(w) - SumSeq(w) * SumSeq(w), n * n)
               ELSE Num(1)
    IN  IF var.num > 0 THEN [dev |-> dev, var |-> var] ELSE Num(0)

\* "window" of calculate_spi for index i (0-based)
Window(precip, i, period) ==
    IF i < period - 1 THEN SubSeq(precip, 1, i + 1)
    ELSE SubSeq(precip, i - period + 2, i + 1)

\* Every index of a series of at least 7 points.
FitIndicesAll(precip, period) ==
    IF Len(precip) < 7 THEN {} ELSE 0..(Len(precip) - 1)

\* The indices for which calculate_spi fits a gamma distribution.
FitIndices(precip, period) ==
    IF Len(precip) < 7 THEN {}
    ELSE {i \in 0..(Len(precip) - 1) : Len(Window(precip, i, period)) >= 7}

\* What the scipy calls do for one window: "fit" (a finite quantile comes
\* back), "nonfinite" (norm.ppf gives inf or nan), "raises" (the bare except
\* takes over).
FitOutcomes == {"fit", "nonfinite", "raises"}

\* spi_values[i] for a window of at least 7 points.  The quantile of a fitted
\* distribution is not computed here: it is kept as the fit's data (the
\* window clamped at 0.1 mm) and the total it is evaluated at.
WindowSpi(window, fit) ==
    LET total_precip == SumSeq(window)
    IN  IF fit = "fit"
        THEN [fit_of |-> [k \in 1..Len(window) |->
                             IF window[k] > 10 THEN window[k] ELSE 10],
              at |-> total_precip]
        ELSE IF fit = "nonfinite" THEN Num(0)
        ELSE ZScore(total_precip, window)

\* calculate_spi(precipitation, dates, period); fits[i] is what scipy does
\* for index i.  Keys are the 0-based indices.
calculate_spi(precip, period, fits) ==
    IF Len(precip) < 7
    THEN [i \in 0..(Len(precip) - 1) |-> ZScore(precip[i + 1], precip)]
    ELSE [i \in FitIndices(precip, period) |->
             WindowSpi(Window(precip, i, period), fits[i])]

\* np.mean(list(spi.values())) if spi else 0: the mean of the values
\* present, kept as the mapping it is the mean of.
SpiMean(spi) == IF DOMAIN spi = {} THEN Num(0) ELSE [mean_of |-> spi]

\* The reference of one day, whatever the length of the period.
calculate_normal_precipitation_of_a_day(days) == 300

\* calculate_normal_precipitation(days) = 3.0 * days, in hundredths of a mm
calculate_normal_precipitation(days) == 300 * days

\* max(0, (1 - avg_precipitation / normal_precipitation) * 100)
\*     if normal_precipitation > 0 else 0
PrecipitationDeficit(precip) ==
    LET normal == calculate_normal_precipitation(Len(precip))
        total  == SumSeq(precip)
        n      == Len(precip)
    IN  IF normal > 0
        THEN IF n * normal > total
             THEN Ratio(100 * (n * normal - total), n * normal)
             ELSE Num(0)
        ELSE Num(0)

\* A count of the dry days of the series that a wet day does not reset.
calculate_consecutive_dry_days_unreset(precip, threshold) ==
    Cardinality({k \in 1..Len(precip) : precip[k] < threshold})

\* calculate_consecutive_dry_days(precipitation, threshold): the longest run
\* of days with precip < threshold.
RECURSIVE DryRunScan(_, _, _, _)
DryRunScan(precip, threshold, current_dry_days, max_dry_days) ==
    IF precip = <<>> THEN max_dry_days
    ELSE IF Head(precip) < threshold
         THEN DryRunScan(Tail(precip), threshold, current_dry_days + 1,
                         IF current_dry_days + 1 > max_dry_days
                         THEN current_dry_days + 1 ELSE max_dry_days)
         ELSE DryRunScan(Tail(precip), threshold, 0, max_dry_days)

calculate_consecutive_dry_days(precip, threshold) ==
    IF Len(precip) = 0 THEN 0 ELSE DryRunScan(precip, threshold, 0, 0)

\* calculate_heat_stress(temperatures, threshold=35)
calculate_heat_stress(temperatures, threshold) ==
    IF Len(temperatures) = 0 THEN Num(0)
    ELSE Ratio(100 * Cardinality({k \in 1..Len(temperatures) :
                                     temperatures[k] > threshold}),
               Len(temperatures))

\* A default set that leaves the SPI mapping out.
get_default_indicators_without_spi ==
    [spi_mean |-> Num(0), precipitation_deficit |-> Num(0),
     consecutive_dry_days |-> 0, avg_temperature |-> Num(25),
     max_temperature |-> 30, heat_stress |-> Num(0),
     soil_moisture_mean |-> Num(50), soil_moisture_min |-> 30,
     et0_mean |-> Num(400), water_balance |-> 0, humidity_mean |-> Num(65)]

get_default_indicators ==
    [spi |-> [i \in {0} |-> Num(0)],
     spi_mean |-> Num(0), precipitation_deficit |-> Num(0),
     consecutive_dry_days |-> 0, avg_temperature |-> Num(25),
     max_temperature |-> 30, heat_stress |-> Num(0),
     soil_moisture_mean |-> Num(50), soil_moisture_min |-> 30,
     et0_mean |-> Num(400), water_balance |-> 0, humidity_mean |-> Num(65)]

\* The keys of climate_data that calculate_drought_indicators subscripts.
IndicatorInputKeys ==
    {"dates", "precipitation", "temperature_2m_mean", "temperature_2m_max",
     "soil_moisture", "et0", "relative_humidity"}

\* np.max / np.min of a non-empty sequence
SeqMax(s) == SetMax({s[k] : k \in 1..Len(s)})
SeqMin(s) == SetMin({s[k] : k \in 1..Len(s)})

\* calculate_drought_indicators(climate_data).  A subscript with a missing
\* key raises KeyError inside the try; the handler replaces whatever was
\* computed by get_default_indicators().
calculate_drought_indicators(cd, fits) ==
    IF IsNone(cd) THEN get_default_indicators
    ELSE IF "dates" \notin DOMAIN cd THEN get_default_indicators
    ELSE IF Len(cd.dates) = 0 THEN get_default_indicators
    ELSE IF ~(IndicatorInputKeys \subseteq DOMAIN cd) THEN get_default_indicators
    ELSE
    LET precip == cd.precipitation
        spi    == calculate_spi(precip, 30, fits)
    IN  [spi |-> spi,
         spi_mean |-> SpiMean(spi),
         precipitation_deficit |-> PrecipitationDeficit(precip),
         consecutive_dry_days |-> calculate_consecutive_dry_days(precip, 10),
         avg_temperature |->
             IF Len(cd.temperature_2m_mean) > 0 THEN Mean(cd.temperature_2m_mean)
             ELSE Num(25),
         max_temperature |->
             IF Len(cd.temperature_2m_max) > 0 THEN SeqMax(cd.temperature_2m_max)
             ELSE 30,
         heat_stress |-> calculate_heat_stress(cd.temperature_2m_max, 35),
         soil_moisture_mean |->
             IF Len(cd.soil_moisture) > 0 THEN Mean(cd.soil_moisture) ELSE Num(50),
         soil_moisture_min |->
             IF Len(cd.soil_moisture) > 0 THEN SeqMin(cd.soil_moisture) ELSE 30,
         et0_mean |-> IF Len(cd.et0) > 0 THEN Mean(cd.et0) ELSE Num(400),
         water_balance |->
             IF Len(precip) > 0 THEN SumSeq(precip) - SumSeq(cd.et0) ELSE 0,
         humidity_mean |->
             IF Len(cd.relative_humidity) > 0 THEN Mean(cd.relative_humidity)
             ELSE Num(65)]

\* The other series of a climate_data of n days.
OtherSeries(n) ==
    [temperature_2m_mean |-> [k \in 1..n |-> 27],
     temperature_2m_max  |-> [k \in 1..n |-> IF k % 2 = 0 THEN 36 ELSE 33],
     soil_moisture       |-> [k \in 1..n |-> 40 - k],
     et0                 |-> [k \in 1..n |-> 400],
     relative_humidity   |-> [k \in 1..n |-> 60]]

ClimateDataOf(precip) ==
    LET o == OtherSeries(Len(precip))
    IN  [dates |-> [k \in 1..Len(precip) |-> DateAt(k - 1)],
         precipitation |-> precip,
         temperature_2m_mean |-> o.temperature_2m_mean,
         temperature_2m_max |-> o.temperature_2m_max,
         soil_moisture |-> o.soil_moisture,
         et0 |-> o.et0,
         relative_humidity |-> o.relative_humidity]

\* d without the key k
WithoutKey(d, k) == [x \in DOMAIN d \ {k} |-> d[x]]

\* Inputs of calculate_drought_indicators: None, the empty dict, complete
\* data for every series of up to MaxSeries days (no day at all included),
\* dates without any value, and data lacking one key.
ClimateInputs ==
    {NoneVal, EmptyDict}
        \cup {ClimateDataOf(p) : p \in SeriesUpTo(MaxSeries)}
        \cup {[dates |-> <<1>>, precipitation |-> <<>>, temperature_2m_mean |-> <<>>,
               temperature_2m_max |-> <<>>, soil_moisture |-> <<>>, et0 |-> <<>>,
               relative_humidity |-> <<>>]}
        \cup {WithoutKey(ClimateDataOf(<<0, 500, 10>>), k) : k \in IndicatorInputKeys}

InitInd ==
    /\ climate_data \in ClimateInputs
    /\ gamma_fits = <<>>
    /\ indicator_set = NoneVal
    /\ ind_pc = "called"

IdleInd ==
    /\ climate_data = NoneVal
    /\ gamma_fits = <<>>
    /\ indicator_set = NoneVal
    /\ ind_pc = "idle"

\* One call of calculate_drought_indicators(climate_data).
CalculateDroughtIndicators ==
    /\ ind_pc = "called"
    /\ \E fits \in [(IF IsNone(climate_data) \/ "precipitation" \notin DOMAIN climate_data
                     THEN {}
                     ELSE FitIndices(climate_data.precipitation, 30)) -> FitOutcomes] :
          /\ gamma_fits' = fits
          /\ indicator_set' = calculate_drought_indicators(climate_data, fits)
    /\ ind_pc' = "returned"
    /\ UNCHANGED climate_data
    /\ UNCHANGED notIndVars

(***************************************************************************)
(*        parse_group_alert_message on texts in the prompt's format        *)
(***************************************************************************)
\* The texts a source following the prompt's format can return: any of the
\* six tagged lines, each at most once, in any order.
TaggedTexts ==
    UNION {{[k \in 1..n |-> ApiResponse[q[k]]] :
               q \in {p \in [1..n -> 1..6] :
                         \A i, j \in 1..n : i # j => p[i] # p[j]}} : n \in 0..6}

InitParse ==
    /\ parse_text \in TaggedTexts
    /\ parse_result = NoneVal
    /\ parse_pc = "called"

IdleParse ==
    /\ parse_text = <<>>
    /\ parse_result = NoneVal
    /\ parse_pc = "idle"

\* One call of parse_group_alert_message(alert_text).
ParseGroupAlertMessage ==
    /\ parse_pc = "called"
    /\ parse_result' = parse_group_alert_message(parse_text)
    /\ parse_pc' = "returned"
    /\ UNCHANGED parse_text
    /\ UNCHANGED notParseVars

(***************************************************************************)
(*      forecast_analyzer.py and the simulated data of data_loader.py      *)
(*                                                                         *)
(* numpy's global generator.  np.random.seed(s) puts it in a state that    *)
(* depends on s alone, and every draw advances it; the values drawn are a  *)
(* fixed function of the seed and of how many values were drawn since.     *)
(* The state is [seed, pos]; Raw stands for that fixed function, giving    *)
(* the fifth of the unit interval the next uniform variate falls in.       *)
(* Series are in hundredths (of a millimetre, of a degree, of a percent),  *)
(* each element a Ratio.                                                   *)
(***************************************************************************)
MaxCalls == 3

Raw(seed, k) == (((seed % 11) + 2) * (k + 3) + ((k * k) % 7) + (seed % 3)) % 5

\* Standard normal and unit exponential variates for the five values of Raw,
\* in tenths and in hundredths.
NormalTenths == <<-13, -5, 0, 5, 13>>
ExponentialHundredths == <<10, 40, 70, 120, 230>>

\* np.random.seed(int(latitude * 100 + longitude))
np_random_seed(latitude, longitude) == [seed |-> latitude * 100 + longitude, pos |-> 0]

\* A simulation that leaves the generator as it finds it.
np_random_unseeded(rng, latitude, longitude) == rng

\* The generator at the start of a seeded simulation.
Reseed(rng, latitude, longitude) == np_random_seed(latitude, longitude)

\* The generator after n more values.
Advance(rng, n) == [seed |-> rng.seed, pos |-> rng.pos + n]

\* np.random.normal(mu, sigma, n): mu in hundredths, sigma in tenths
Normal(rng, mu, sigma, n) ==
    [k \in 1..n |-> Num(mu + sigma * NormalTenths[Raw(rng.seed, rng.pos + k) + 1])]

\* np.random.exponential(scale, n): scale in units
Exponential(rng, scale, n) ==
    [k \in 1..n |-> Num(scale * ExponentialHundredths[Raw(rng.seed, rng.pos + k) + 1])]

\* np.random.binomial(1, p): p[k] is a Ratio; 1 when the uniform variate
\* (2 * Raw + 1) / 10 is below p[k]
Binomial(rng, p) ==
    [k \in 1..Len(p) |->
        IF (2 * Raw(rng.seed, rng.pos + k) + 1) * p[k].den < 10 * p[k].num
        THEN 1 ELSE 0]

\* np.random.choice([0, 1], size=n, p=[p0, 1 - p0]): p0 in tenths
Choice(rng, p0, n) ==
    [k \in 1..n |-> IF 2 * Raw(rng.seed, rng.pos + k) + 1 < p0 THEN 0 ELSE 1]

\* np.linspace(a, b, n)[k - 1] for a, b in the series' unit
Linspace(a, b, n, k) ==
    IF n = 1 THEN Num(a) ELSE Ratio(a * (n - 1) + (b - a) * (k - 1), n - 1)

\* x + y and max(0, x) for Ratios
RAdd(x, y) ==
    IF x.den = y.den THEN Ratio(x.num + y.num, x.den)
    ELSE Ratio(x.num * y.den + y.num * x.den, x.den * y.den)
RMax0(x) == IF x.num < 0 THEN Ratio(0, x.den) ELSE x

\* np.clip(x, lo, hi) for a Ratio x and integers lo, hi
RClip(x, lo, hi) ==
    IF x.num < lo * x.den THEN Num(lo)
    ELSE IF x.num > hi * x.den THEN Num(hi) ELSE x

\* base_temp = 25 + (latitude - 5) * 0.5, in hundredths of a degree
BaseTemp(latitude) == 2500 + 50 * (latitude - 5)

\* len(dates); the dates themselves are kept as offsets from now.  Daily ranges from now to now + d days have d + 1 dates;
\* the month ends from now to now + 365 * years days are 12 * years, or one
\* more when the range starts on a month end.
DailyDates(days) == days + 1
MonthlyDates(years, on_month_end) == 12 * years + (IF on_month_end THEN 1 ELSE 0)

\* get_30day_forecast(latitude, longitude): the dict returned and the
\* generator afterwards.
get_30day_forecast(rng, latitude, longitude) ==
    LET n  == DailyDates(30)
        r0 == Reseed(rng, latitude, longitude)
        base_temp == BaseTemp(latitude)
        tmax == Normal(r0, 300, 20, n)
        r1 == Advance(r0, n)
        tmin == Normal(r1, -300, 20, n)
        r2 == Advance(r1, n)
        rain_prob == [k \in 1..n |-> Linspace(30, 10, n, k)]
        expo == Exponential(r2, 5, n)
        r3 == Advance(r2, n)
        wet == Binomial(r3, [k \in 1..n |-> Ratio(rain_prob[k].num, 100 * rain_prob[k].den)])
        r4 == Advance(r3, n)
        et0 == Normal(r4, 400, 10, n)
        r5 == Advance(r4, n)
    IN  [value |->
            [dates |-> [k \in 1..n |-> k - 1],
             temperature_max |-> [k \in 1..n |-> Num(base_temp + tmax[k].num)],
             temperature_min |-> [k \in 1..n |-> Num(base_temp + tmin[k].num)],
             precipitation |-> [k \in 1..n |-> Num(expo[k].num * wet[k])],
             et0 |-> et0,
             type |-> "30days",
             timeframe |-> "30 jours",
             confidence |-> Ratio(7, 10)],
         rng |-> r5]

\* get_seasonal_forecast(latitude, longitude).  seasonal_variation is
\* 3 sin(2 pi (k - 1) / (n - 1)), a function of k and n alone, left as the
\* field 'phase' beside the rest of the sum; rain_season, the sign of the
\* cosine, is true in the first and in the last quarter of the range.
get_seasonal_forecast(rng, latitude, longitude) ==
    LET n  == DailyDates(90)
        r0 == Reseed(rng, latitude, longitude)
        base_temp == BaseTemp(latitude)
        tmax == Normal(r0, 0, 15, n)
        r1 == Advance(r0, n)
        tmin == Normal(r1, -200, 15, n)
        r2 == Advance(r1, n)
        rain_season == [k \in 1..n |->
                           IF 4 * (k - 1) < n - 1 \/ 4 * (k - 1) > 3 * (n - 1)
                           THEN 1 ELSE 0]
        expo == Exponential(r2, 8, n)
        r3 == Advance(r2, n)
        et0 == Normal(r3, 450, 8, n)
        r4 == Advance(r3, n)
    IN  [value |->
            [dates |-> [k \in 1..n |-> k - 1],
             temperature_max |->
                 [k \in 1..n |-> [phase |-> <<k - 1, n - 1>>,
                                  rest |-> Num(base_temp + tmax[k].num)]],
             temperature_min |->
                 [k \in 1..n |-> [phase |-> <<k - 1, n - 1>>,
                                  rest |-> Num(base_temp + tmin[k].num)]],
             precipitation |-> [k \in 1..n |-> Num(expo[k].num * rain_season[k])],
             et0 |-> et0,
             type |-> "seasonal",
             timeframe |-> "90 jours",
             confidence |-> Ratio(6, 10)],
         rng |-> r4]

\* get_longterm_forecast(latitude, longitude, years)
get_longterm_forecast(rng, latitude, longitude, years, on_month_end) ==
    LET n  == MonthlyDates(years, on_month_end)
        r0 == Reseed(rng, latitude, longitude)
        base_temp == BaseTemp(latitude)
        warming_trend == [k \in 1..n |-> Linspace(0, 80 * years, n, k)]
        noise == Normal(r0, 0, 20, n)
        r1 == Advance(r0, n)
        precip_trend == [k \in 1..n |-> Linspace(0, -10 * years, n, k)]
        expo == Exponential(r1, 80, n)
        r2 == Advance(r1, n)
    IN  [value |->
            [dates |-> [k \in 1..n |-> k - 1],
             temperature_max |->
                 [k \in 1..n |-> RAdd(Num(base_temp + noise[k].num), warming_trend[k])],
             precipitation |->
                 [k \in 1..n |->
                     RMax0(RAdd(expo[k], Ratio(20 * precip_trend[k].num,
                                               precip_trend[k].den)))],
             type |-> ToString(years) \o "year",
             timeframe |-> ToString(years) \o " an(s)",
             confidence |-> Ratio(5, 10),
             warming_trend |-> warming_trend,
             precip_trend |-> precip_trend],
         rng |-> r2]

\* get_longterm_projection(latitude, longitude, years=5)
get_longterm_projection(rng, latitude, longitude, years, on_month_end) ==
    get_longterm_forecast(rng, latitude, longitude, years, on_month_end)

\* What the Open-Meteo call of get_10day_forecast comes back with: ten days
\* of precipitation and et0 (a wet decade, a decade of 2.5 mm a day under an
\* et0 of 5 mm), or an exception.
ApiForecasts ==
    {[raises |-> FALSE,
      precipitation |-> [k \in 1..10 |-> Num(IF k % 2 = 0 THEN 800 ELSE 150)],
      et0 |-> [k \in 1..10 |-> Num(350)]],
     [raises |-> FALSE,
      precipitation |-> [k \in 1..10 |-> Num(250)],
      et0 |-> [k \in 1..10 |-> Num(500)]],
     [raises |-> TRUE, precipitation |-> <<>>, et0 |-> <<>>]}

\* get_10day_forecast(latitude, longitude): the dict built from the API
\* response (temperatures left out: nothing modelled reads them).
get_10day_forecast(api) ==
    [dates |-> [k \in 1..Len(api.precipitation) |-> k - 1],
     precipitation |-> api.precipitation,
     et0 |-> api.et0,
     type |-> "10days",
     timeframe |-> "10 jours"]

\* get_forecast_data(latitude, longitude, forecast_type): the value returned
\* and the generator afterwards.  An exception in a branch is caught and None
\* returned; a forecast_type outside the five falls through the chain and the
\* function returns None as well.
get_forecast_data(rng, latitude, longitude, forecast_type, api, on_month_end) ==
    IF forecast_type = "10days"
    THEN [value |-> IF api.raises THEN NoneVal ELSE get_10day_forecast(api),
          rng |-> rng]
    ELSE IF forecast_type = "30days" THEN get_30day_forecast(rng, latitude, longitude)
    ELSE IF forecast_type = "90days" THEN get_seasonal_forecast(rng, latitude, longitude)
    ELSE IF forecast_type = "1year"
    THEN get_longterm_forecast(rng, latitude, longitude, 1, on_month_end)
    ELSE IF forecast_type = "5years"
    THEN get_longterm_projection(rng, latitude, longitude, 5, on_month_end)
    ELSE [value |-> NoneVal, rng |-> rng]

\* np.sum of a series of Ratios: the sum of s[lo..hi], by halves
RECURSIVE RSumRange(_, _, _)
RSumRange(s, lo, hi) ==
    IF lo > hi THEN Num(0)
    ELSE IF lo = hi THEN s[lo]
    ELSE LET mid == (lo + hi) \div 2
         IN  RAdd(RSumRange(s, lo, mid), RSumRange(s, mid + 1, hi))

RSum(s) == RSumRange(s, 1, Len(s))

\* x < c for a Ratio x and an integer c
RLess(x, c) == x.num < c * x.den

\* The risk_level and color of calculate_drought_risk for a score.
ForecastRiskLevel(risk_score) ==
    IF ~RLess(risk_score, 80) THEN [risk_level |-> "Très Élevé", color |-> "red"]
    ELSE IF ~RLess(risk_score, 60) THEN [risk_level |-> "Élevé", color |-> "orange"]
    ELSE IF ~RLess(risk_score, 40) THEN [risk_level |-> "Modéré", color |-> "yellow"]
    ELSE IF ~RLess(risk_score, 20) THEN [risk_level |-> "Faible", color |-> "blue"]
    ELSE [risk_level |-> "Très Faible", color |-> "green"]

\* forecast_data.get('confidence', 0.5)
ForecastConfidence(forecast_data) == Get(forecast_data, "confidence", Ratio(5, 10))

\* calculate_drought_risk for a forecast without any value: the mean of
\* nothing and 0 / 0 are nan (numpy warns, it does not raise), no comparison
\* with nan holds, the score becomes nan, and min(100, nan) is 100.
NaN == [nan |-> TRUE]
DroughtRiskOfNothing(forecast_data) ==
    LET level == ForecastRiskLevel(Num(100))
    IN  [risk_score |-> Num(100),
         risk_level |-> level.risk_level,
         risk_color |-> level.color,
         total_precipitation |-> Num(0),
         average_precipitation |-> NaN,
         dry_days |-> 0,
         water_balance |-> Num(0),
         timeframe |-> Get(forecast_data, "timeframe", "Inconnu"),
         confidence |-> ForecastConfidence(forecast_data)]

\* "Facteur précipitations (50%)": the points of the average precipitation
ForecastPrecipPoints(avg_precip) ==
    IF RLess(avg_precip, 100) THEN 50
    ELSE IF RLess(avg_precip, 200) THEN 30
    ELSE IF RLess(avg_precip, 300) THEN 15 ELSE 0

\* A water balance that adds nothing to the score.
ForecastBalancePointsDropped(water_balance) == 0

\* "Facteur bilan hydrique (20%)": the points of the water balance
ForecastBalancePoints(water_balance) ==
    IF RLess(water_balance, -5000) THEN 20
    ELSE IF RLess(water_balance, -2000) THEN 10 ELSE 0

\* calculate_drought_risk(forecast_data); amounts in hundredths of a
\* millimetre.  The et0 default of line 179 is read by nothing.
calculate_drought_risk(forecast_data) ==
    IF IsNone(forecast_data) THEN NoneVal
    ELSE IF Len(forecast_data.precipitation) = 0 THEN DroughtRiskOfNothing(forecast_data)
    ELSE
    LET precip == forecast_data.precipitation
        n == Len(precip)
        total_precip == RSum(precip)
        avg_precip == Ratio(total_precip.num, total_precip.den * n)
        dry_days == Cardinality({k \in 1..n : RLess(precip[k], 100)})
        et0_total == RSum(forecast_data.et0)
        water_balance ==
            IF "et0" \in DOMAIN forecast_data
            THEN RAdd(total_precip, Ratio(-et0_total.num, et0_total.den))
            ELSE RAdd(total_precip, Num(-(n * 300)))
        precip_points == ForecastPrecipPoints(avg_precip)
        balance_points == ForecastBalancePoints(water_balance)
        summed == Ratio((precip_points + balance_points) * n + 30 * dry_days, n)
        risk_score == IF RLess(summed, 100) THEN summed ELSE Num(100)
        level == ForecastRiskLevel(risk_score)
    IN  [risk_score |-> risk_score,
         risk_level |-> level.risk_level,
         risk_color |-> level.color,
         total_precipitation |-> total_precip,
         average_precipitation |-> avg_precip,
         dry_days |-> dry_days,
         water_balance |-> water_balance,
         timeframe |-> Get(forecast_data, "timeframe", "Inconnu"),
         confidence |-> ForecastConfidence(forecast_data)]

\* simulate_relative_humidity(latitude, longitude, n_days): the series and the
\* generator afterwards.  Nothing seeds the generator here.
simulate_relative_humidity(rng, latitude, longitude, n_days) ==
    LET away == IF latitude >= 4 THEN latitude - 4 ELSE 4 - latitude
        raw_base == 7000 - 200 * away
        base_humidity == IF raw_base < 4000 THEN 4000
                         ELSE IF raw_base > 9000 THEN 9000 ELSE raw_base
        humidity_variation == Normal(rng, 0, 100, n_days)
    IN  [value |-> [k \in 1..n_days |->
                       RClip(Num(base_humidity + humidity_variation[k].num), 3000, 9500)],
         rng |-> Advance(rng, n_days)]

\* simulate_soil_moisture(precipitation, et0): a recurrence over the two
\* series and nothing else; kept as the pair it is computed from.
simulate_soil_moisture(precip, et0) == [soil_moisture_of |-> <<precip, et0>>]

\* n_days of get_simulated_climate_data
SimulatedDays(period) ==
    IF period = "7 jours" THEN 7
    ELSE IF period = "15 jours" THEN 15
    ELSE IF period = "90 jours" THEN 90
    ELSE IF period = "1 an" THEN 365
    ELSE 30

\* get_simulated_climate_data(latitude, longitude, period)
get_simulated_climate_data(rng, latitude, longitude, period) ==
    LET n  == SimulatedDays(period)
        base_temp == BaseTemp(latitude)
        r0 == Reseed(rng, latitude, longitude)
        tmax0 == Normal(r0, 500, 20, n)
        r1 == Advance(r0, n)
        tmin0 == Normal(r1, -500, 20, n)
        r2 == Advance(r1, n)
        coastal == longitude > 9 /\ latitude < 5
        tmax1 == IF coastal THEN Normal(r2, 300, 10, n) ELSE tmax0
        tmin1 == IF coastal THEN Normal(Advance(r2, n), -300, 10, n) ELSE tmin0
        r3 == IF coastal THEN Advance(r2, 2 * n) ELSE r2
        expo == Exponential(r3, IF latitude > 8 THEN 2 ELSE 5, n)
        r4 == Advance(r3, n)
        wet == Choice(r4, IF latitude > 8 THEN 3 ELSE 2, n)
        r5 == Advance(r4, n)
        precip0 == [k \in 1..n |-> Num(expo[k].num * wet[k])]
        et0 == Normal(r5, 400, 10, n)
        r6 == Advance(r5, n)
        soil_moisture == simulate_soil_moisture(precip0, et0)
        humidity == simulate_relative_humidity(r6, latitude, longitude, n)
        tmax == [k \in 1..n |-> RClip(Num(base_temp + tmax1[k].num), 2000, 4500)]
        tmin == [k \in 1..n |-> RClip(Num(base_temp + tmin1[k].num), 1500, 3000)]
    IN  [value |->
            [dates |-> [k \in 1..n |-> k - n - 1],
             temperature_2m_max |-> tmax,
             temperature_2m_min |-> tmin,
             temperature_2m_mean |->
                 [k \in 1..n |-> Ratio(tmax[k].num + tmin[k].num, 2)],
             precipitation |-> [k \in 1..n |-> RClip(precip0[k], 0, 5000)],
             soil_moisture |-> soil_moisture,
             et0 |-> et0,
             relative_humidity |-> humidity.value],
         rng |-> humidity.rng]

\* The localities analysed: (latitude, longitude) in whole degrees, one on
\* the coast and one in the north.
Locations == {[latitude |-> 4, longitude |-> 10], [latitude |-> 10, longitude |-> 14]}

\* The forecast_type values of the UI's forecast_mapping.
ForecastTypes == {"10days", "30days", "90days", "1year", "5years"}

\* The generator as the process finds it: seeded by the system, not by a
\* locality.
InitialGenerators == {[seed |-> 0, pos |-> 0]}

InitForecast ==
    /\ np_random \in InitialGenerators
    /\ month_end_today \in BOOLEAN
    /\ fc_calls = 0
    /\ fc_prev = NoneVal
    /\ fc_last = NoneVal

IdleForecast ==
    /\ np_random = [seed |-> 0, pos |-> 0]
    /\ month_end_today = FALSE
    /\ fc_calls = 0
    /\ fc_prev = NoneVal
    /\ fc_last = NoneVal

\* analyzer.get_forecast_data(latitude, longitude, selected_type), then
\* calculate_drought_risk on its result if there is one (app.py:1152-1160).
ForecastCall ==
    /\ fc_calls < MaxCalls
    /\ \E loc \in Locations, forecast_type \in ForecastTypes, api \in ApiForecasts :
          /\ forecast_type # "10days" => api.raises
          /\ LET got == get_forecast_data(np_random, loc.latitude, loc.longitude,
                                          forecast_type, api, month_end_today)
             IN  /\ np_random' = got.rng
                 /\ fc_last' = [op |-> "get_forecast_data",
                                args |-> <<loc.latitude, loc.longitude, forecast_type>>,
                                value |-> got.value,
                                risk |-> IF IsNone(got.value) THEN NoneVal
                                         ELSE calculate_drought_risk(got.value)]
    /\ fc_prev' = fc_last
    /\ fc_calls' = fc_calls + 1
    /\ UNCHANGED month_end_today
    /\ UNCHANGED notForecastVars

\* get_simulated_climate_data(latitude, longitude, period)
SimulatedClimateCall ==
    /\ fc_calls < MaxCalls
    /\ \E loc \in Locations, period \in {"30 jours"} :
          LET got == get_simulated_climate_data(np_random, loc.latitude, loc.longitude, period)
          IN  /\ np_random' = got.rng
              /\ fc_last' = [op |-> "get_simulated_climate_data",
                             args |-> <<loc.latitude, loc.longitude, period>>,
                             value |-> got.value,
                             risk |-> NoneVal]
    /\ fc_prev' = fc_last
    /\ fc_calls' = fc_calls + 1
    /\ UNCHANGED month_end_today
    /\ UNCHANGED notForecastVars

\* simulate_relative_humidity(latitude, longitude, len(daily_dates)), as
\* get_climate_data calls it on data the API returned.
RelativeHumidityCall ==
    /\ fc_calls < MaxCalls
    /\ \E loc \in Locations :
          LET got == simulate_relative_humidity(np_random, loc.latitude, loc.longitude, 7)
          IN  /\ np_random' = got.rng
              /\ fc_last' = [op |-> "simulate_relative_humidity",
                             args |-> <<loc.latitude, loc.longitude, 7>>,
                             value |-> got.value,
                             risk |-> NoneVal]
    /\ fc_prev' = fc_last
    /\ fc_calls' = fc_calls + 1
    /\ UNCHANGED month_end_today
    /\ UNCHANGED notForecastVars

(***************************************************************************)
(* FloodCalculator (flood_monitoring/utils/flood_calculator.py).           *)
(* Precipitation is in whole millimetres per hour, humidity and soil       *)
(* moisture in percent, altitude in metres.  The scores are kept as exact  *)
(* fractions in lowest terms.                                              *)
(***************************************************************************)
MaxHours == 25

RECURSIVE Gcd(_, _)
Gcd(a, b) == IF b = 0 THEN a ELSE Gcd(b, a % b)

\* The fraction n / d (d > 0) in lowest terms.
Q(n, d) ==
    LET g == Gcd(IF n < 0 THEN -n ELSE n, d)
    IN  Ratio(n \div g, d \div g)

QAdd(x, y) == Q(x.num * y.den + y.num * x.den, x.den * y.den)
QMul(x, y) == Q(x.num * y.num, x.den * y.den)
\* x / y for y > 0
QDiv(x, y) == Q(x.num * y.den, x.den * y.num)
QLeq(x, y) == x.num * y.den <= y.num * x.den
QMin(x, y) == IF QLeq(x, y) THEN x ELSE y
QMax(x, y) == IF QLeq(x, y) THEN y ELSE x

\* Config.PRECIPITATION_THRESHOLDS
thresholds ==
    [intensity_hourly |-> 50, cumul_3h |-> 100, cumul_daily |-> 200, soil_moisture |-> 85]

\* Config.ALERT_LEVELS
alert_levels ==
    ("Vigilance" :> [color |-> "green", delay |-> "72-48h",
                     actions |-> "Surveillance renforcée"]) @@
    ("Pré-alerte" :> [color |-> "yellow", delay |-> "48-24h",
                      actions |-> "Préparation communautaire"]) @@
    ("Alerte" :> [color |-> "orange", delay |-> "24-6h",
                  actions |-> "Mise en sécurité biens/matériels"]) @@
    ("Alerte Maximale" :> [color |-> "red", delay |-> "<6h",
                           actions |-> "Évacuation populations"])

\* s[:24]
First24(s) == SubSeq(s, 1, IF Len(s) < 24 THEN Len(s) ELSE 24)

\* max(s) if s else 0
MaxOrZero(s) == IF Len(s) = 0 THEN 0 ELSE SeqMax(s)

\* np.mean(s) if s else default
MeanOr(s, default) == IF Len(s) = 0 THEN Num(default) ELSE Q(SumSeq(s), Len(s))

\* str(x).lower() and 'word in text'.  A text is the sequence of the pieces
\* it is made of; the pieces that matter are the words looked for.
LowerPiece(piece) ==
    CASE piece = "Urbain" -> "urbain"
      [] piece = "Côtière" -> "côtière"
      [] piece = "Urbanisation" -> "urbanisation"
      [] piece = "Drainage insuffisant" -> "drainage insuffisant"
      [] piece = "Défrichement" -> "défrichement"
      [] piece = "Zone " -> "zone "
      [] piece = "Rurale" -> "rurale"
      [] OTHER -> piece
Lower(text) == [i \in 1..Len(text) |-> LowerPiece(text[i])]
Contains(text, word) == \E i \in 1..Len(text) : text[i] = word

\* threshold_factor of _calculate_ffg, every type but the first two taking
\* the last branch
threshold_factor_flat(flood_type) == Num(1)

threshold_factor(flood_type) ==
    IF flood_type = "Côtière" THEN Q(8, 10)
    ELSE IF flood_type = "Pluviale" THEN Q(10, 10)
    ELSE Q(12, 10)

\* _calculate_ffg(precipitation, flood_type)
_calculate_ffg(precip, flood_type) ==
    LET total_precip == SumSeq(precip)
        max_hourly == MaxOrZero(precip)
        f == threshold_factor(flood_type)
    IN  QMin(QAdd(QMul(QDiv(Num(max_hourly),
                            QMul(Num(thresholds.intensity_hourly), f)),
                       Q(6, 10)),
                  QMul(QDiv(Num(total_precip),
                            QMul(Num(thresholds.cumul_daily), f)),
                       Q(4, 10))),
             Num(1))

\* _calculate_ifs(precipitation, humidity, locality_data)
_calculate_ifs(precip, hum, locality) ==
    LET zone == Lower(Get(locality, "zone", <<>>))
        factors == Lower(Get(locality, "facteurs_aggravation", <<>>))
        sealed == \E word \in {"urbain", "côtière"} : Contains(zone, word)
        impermeability_factor ==
            IF Contains(factors, "urbanisation") THEN Q(15, 10)
            ELSE IF sealed THEN Q(13, 10) ELSE Num(1)
        avg_humidity == MeanOr(hum, 60)
        humidity_factor == QDiv(avg_humidity, Num(100))
        precip_intensity == MeanOr(precip, 0)
        intensity_factor == QMin(QDiv(precip_intensity, Num(20)), Num(1))
    IN  QMin(QMul(impermeability_factor,
                  QAdd(QMul(intensity_factor, Q(7, 10)),
                       QMul(humidity_factor, Q(3, 10)))),
             Num(1))

\* _calculate_soil_saturation(weather_data, locality_data); the caller has
\* made sure the soil_moisture list has a first element
_calculate_soil_saturation(weather, locality) ==
    LET soil_moisture == Get(weather, "soil_moisture", <<50>>)[1]
        altitude == Get(locality, "altitude", 100)
        altitude_factor == QMax(Q(1, 2), QAdd(Num(1), Q(-altitude, 1000)))
        saturation == QMin(Q(soil_moisture, thresholds.soil_moisture), Num(1))
    IN  QMul(saturation, altitude_factor)

\* The factor of the flood type left on its scale of 1 to 1.5.
_get_flood_type_factor_unnormalised(flood_type, locality) ==
    LET factors == Lower(Get(locality, "facteurs_aggravation", <<>>))
        aggravated ==
            \E factor \in {"drainage insuffisant", "défrichement"} :
                Contains(factors, factor)
        base_factor ==
            CASE flood_type = "Côtière" -> Q(12, 10)
              [] flood_type = "Pluviale" -> Q(11, 10)
              [] flood_type = "Fluviale" -> Q(10, 10)
              [] flood_type = "Mixte" -> Q(115, 100)
              [] OTHER -> Num(1)
        raised == IF aggravated THEN QMul(base_factor, Q(12, 10)) ELSE base_factor
    IN  QMin(raised, Q(15, 10))

\* _get_flood_type_factor(flood_type, locality_data)
_get_flood_type_factor(flood_type, locality) ==
    LET base_factor ==
            CASE flood_type = "Côtière" -> Q(12, 10)
              [] flood_type = "Pluviale" -> Q(11, 10)
              [] flood_type = "Fluviale" -> Q(10, 10)
              [] flood_type = "Mixte" -> Q(115, 100)
              [] OTHER -> Num(1)
        factors == Lower(Get(locality, "facteurs_aggravation", <<>>))
        aggravated ==
            \E factor \in {"drainage insuffisant", "défrichement"} :
                Contains(factors, factor)
        raised == IF aggravated THEN QMul(base_factor, Q(12, 10)) ELSE base_factor
    IN  QDiv(QMin(raised, Q(15, 10)), Q(15, 10))

\* The level of a score that is not adjusted for the intensity of the rain.
determine_alert_level_unadjusted(risk_score, precip) ==
    LET level ==
            IF QLeq(Q(8, 10), risk_score) THEN "Alerte Maximale"
            ELSE IF QLeq(Q(6, 10), risk_score) THEN "Alerte"
            ELSE IF QLeq(Q(4, 10), risk_score) THEN "Pré-alerte"
            ELSE "Vigilance"
    IN  <<level, alert_levels[level]>>

\* _determine_alert_level(risk_score, precipitation): level and alert_details
_determine_alert_level(risk_score, precip) ==
    LET max_precip == MaxOrZero(precip)
        intensity_factor == QMin(Q(max_precip, thresholds.intensity_hourly), Num(2))
        adjusted_score == QMin(QMul(risk_score, intensity_factor), Num(1))
        level ==
            IF QLeq(Q(8, 10), adjusted_score) THEN "Alerte Maximale"
            ELSE IF QLeq(Q(6, 10), adjusted_score) THEN "Alerte"
            ELSE IF QLeq(Q(4, 10), adjusted_score) THEN "Pré-alerte"
            ELSE "Vigilance"
    IN  <<level, alert_levels[level]>>

\* Whether the body of calculate_risk raises: weather_data is None (no .get)
\* or its soil_moisture list is empty (no element 0).
CalculateRiskRaises(weather, locality) ==
    \/ IsNone(weather)
    \/ Len(Get(weather, "soil_moisture", <<50>>)) = 0

\* calculate_risk(weather_data, locality_data)
calculate_risk(weather, locality) ==
    IF CalculateRiskRaises(weather, locality)
    THEN [alert_level |-> "Inconnu", risk_score |-> Num(0), details |-> EmptyDict]
    ELSE
    LET hourly_data == Get(weather, "hourly", EmptyDict)
        precip == First24(Get(hourly_data, "precipitation", <<0>>))
        hum == First24(Get(hourly_data, "relative_humidity_2m", <<60>>))
        flood_type == Get(locality, "type_inondation", "Mixte")
        ffg_score == _calculate_ffg(precip, flood_type)
        ifs_score == _calculate_ifs(precip, hum, locality)
        soil_saturation == _calculate_soil_saturation(weather, locality)
        type_factor == _get_flood_type_factor(flood_type, locality)
        risk_score ==
            QAdd(QAdd(QAdd(QMul(ffg_score, Q(4, 10)), QMul(ifs_score, Q(3, 10))),
                      QMul(soil_saturation, Q(2, 10))),
                 QMul(type_factor, Q(1, 10)))
        alert == _determine_alert_level(risk_score, precip)
    IN  [alert_level |-> alert[1],
         risk_score |-> risk_score,
         details |->
             [ffg_score |-> ffg_score,
              ifs_score |-> ifs_score,
              soil_saturation |-> soil_saturation,
              type_factor |-> type_factor,
              precipitation_24h |-> SumSeq(precip),
              max_hourly_precip |-> MaxOrZero(precip),
              flood_type |-> flood_type,
              alert_details |-> alert[2]]]

\* Hourly precipitation of 0, 1, 24 or MaxHours hours: a steady rain with one
\* peak in the first or in the last hour (the last being past the 24th when
\* there are more than 24).
HourCounts == {0, 1, 24, MaxHours}
PrecipitationProfiles ==
    {[k \in 1..n |-> IF k = q THEN p ELSE b] :
        n \in HourCounts, q \in {1, MaxHours}, p \in {0, 30, 40, 50, 60, 100, 150},
        b \in {0, 2, 10}}
HumidityProfiles == {<<100, 80>>, <<60, 60, 60>>}

HourlyInputs ==
    {EmptyDict}
        \cup {[precipitation |-> p] : p \in PrecipitationProfiles}
        \cup {[precipitation |-> p, relative_humidity_2m |-> h] :
                 p \in PrecipitationProfiles, h \in HumidityProfiles}

\* weather_data: None, what the API or the fallback returns (no soil_moisture
\* key), and data carrying a soil_moisture list.
WeatherInputs ==
    {NoneVal, EmptyDict}
        \cup {[hourly |-> h] : h \in HourlyInputs}
        \cup {[hourly |-> h, soil_moisture |-> s] :
                 h \in HourlyInputs, s \in {<<>>, <<40>>, <<85, 20>>, <<100>>}}

FloodTypes == {"Côtière", "Pluviale", "Fluviale", "Mixte"}
CompleteLocalities ==
    {[type_inondation |-> t, zone |-> z, facteurs_aggravation |-> f, altitude |-> a] :
        t \in FloodTypes,
        z \in {<<"Zone ", "Urbain", "e">>, <<"Rurale">>},
        f \in {<<>>, <<"Urbanisation", " rapide">>, <<"Drainage insuffisant">>},
        a \in {0, 600, 1200}}
LocalityInputs ==
    CompleteLocalities
        \cup {WithoutKey(l, k) :
                 l \in {c \in CompleteLocalities : c.altitude = 0 /\ c.zone = <<"Rurale">>},
                 k \in {"type_inondation", "zone", "facteurs_aggravation", "altitude"}}

InitFlood ==
    /\ weather_data \in WeatherInputs
    /\ locality_data \in LocalityInputs
    /\ flood_result = NoneVal
    /\ flood_pc = "ready"

IdleFlood ==
    /\ weather_data = NoneVal
    /\ locality_data = EmptyDict
    /\ flood_result = NoneVal
    /\ flood_pc = "idle"

\* flood_calculator.calculate_risk(weather_data, locality)
CalculateRisk ==
    /\ flood_pc = "ready"
    /\ flood_result' = calculate_risk(weather_data, locality_data)
    /\ flood_pc' = "done"
    /\ UNCHANGED <<weather_data, locality_data>>
    /\ UNCHANGED notFloodVars

(***************************************************************************)
(*                           Specifications                                *)
(***************************************************************************)
InitRiskSpec ==
    InitRisk /\ IdleSeg /\ IdleGroup /\ IdleBatch /\ IdleInd /\ IdleParse /\ IdleForecast /\ IdleFlood
NextRisk == AssessDroughtRisk \/ ReassessWithDeficit
SpecRisk == InitRiskSpec /\ [][NextRisk]_vars

InitSegSpec ==
    IdleRisk /\ InitSeg /\ IdleGroup /\ IdleBatch /\ IdleInd /\ IdleParse /\ IdleForecast /\ IdleFlood
NextSeg == ScanDay \/ FinishScan
SpecSeg == InitSegSpec /\ [][NextSeg]_vars

InitGroupSpec ==
    IdleRisk /\ IdleSeg /\ InitGroup /\ IdleBatch /\ IdleInd /\ IdleParse /\ IdleForecast /\ IdleFlood
NextGroup == AnalyseSample \/ ReturnGroupAlert \/ DisplayGroupAlert
SpecGroup == InitGroupSpec /\ [][NextGroup]_vars

InitBatchSpec ==
    IdleRisk /\ IdleSeg /\ IdleGroup /\ InitBatch /\ IdleInd /\ IdleParse /\ IdleForecast /\ IdleFlood
NextBatch == GroupLocalities \/ DetailedMode \/ AnalyseGroup \/ ReturnAlerts
SpecBatch == InitBatchSpec /\ [][NextBatch]_vars

InitIndSpec ==
    IdleRisk /\ IdleSeg /\ IdleGroup /\ IdleBatch /\ InitInd /\ IdleParse /\ IdleForecast /\ IdleFlood
NextInd == CalculateDroughtIndicators
SpecInd == InitIndSpec /\ [][NextInd]_vars

InitParseSpec ==
    IdleRisk /\ IdleSeg /\ IdleGroup /\ IdleBatch /\ IdleInd /\ InitParse /\ IdleForecast /\ IdleFlood
NextParse == ParseGroupAlertMessage
SpecParse == InitParseSpec /\ [][NextParse]_vars

InitForecastSpec ==
    IdleRisk /\ IdleSeg /\ IdleGroup /\ IdleBatch /\ IdleInd /\ IdleParse /\ InitForecast /\ IdleFlood
NextForecast == ForecastCall \/ SimulatedClimateCall \/ RelativeHumidityCall
SpecForecast == InitForecastSpec /\ [][NextForecast]_vars

InitFloodSpec ==
    IdleRisk /\ IdleSeg /\ IdleGroup /\ IdleBatch /\ IdleInd /\ IdleParse /\ IdleForecast /\ InitFlood
NextFlood == CalculateRisk
SpecFlood == InitFloodSpec /\ [][NextFlood]_vars


(***************************************************************************)
(*                    Properties of detect_drought_periods                 *)
(***************************************************************************)
SegDone == seg_pc = "done"
NDays == Len(precipitation)
DryAt(k) == precipitation[k] < dry_threshold
AllDry == \A k \in 1..NDays : DryAt(k)

\* The maximal runs of consecutive dry days, as pairs <<first, last>> of
\* day numbers (1-based), read off the series itself.
MaximalDryRuns ==
    {r \in (1..NDays) \X (1..NDays) :
        /\ r[1] <= r[2]
        /\ \A k \in r[1]..r[2] : DryAt(k)
        /\ (r[1] = 1 \/ ~DryAt(r[1] - 1))
        /\ (r[2] = NDays \/ ~DryAt(r[2] + 1))}
LongDryRuns == {r \in MaximalDryRuns : r[2] - r[1] + 1 >= 3}

\* C2: detect_drought_periods never holds or returns a period with fewer
\* than 3 dry days; and on a series of N >= 3 days that are all dry it
\* returns exactly one period, with dry_days = N, from the first day to the
\* last day.
C2_MinThreeDaysAndAllDry ==
    /\ \A k \in 1..Len(drought_periods) : drought_periods[k].dry_days >= 3
    /\ (SegDone /\ NDays >= 3 /\ AllDry) =>
          /\ Len(drought_periods) = 1
          /\ drought_periods[1].dry_days = NDays
          /\ drought_periods[1].start_index = 0
          /\ drought_periods[1].start_date = DateAt(0)
          /\ drought_periods[1].end_index = NDays - 1
          /\ drought_periods[1].end_date = DateAt(NDays - 1)

C2_Witness ==
    /\ SegDone
    /\ NDays >= 3
    /\ AllDry
    /\ Len(drought_periods) = 1
    /\ drought_periods[1].dry_days = NDays

\* C3: the returned list holds, in chronological order, exactly one period
\* for each maximal run of at least 3 consecutive dry days (a run reaching
\* the last day included), with dry_days the run's length and start and end
\* the run's first and last day; the 10-day example with threshold 0.1 mm
\* gives days 1-5 (5 dry days) and days 7-10 (4 dry days).
C3_OnePeriodPerLongRun ==
    SegDone =>
        /\ Len(drought_periods) = Cardinality(LongDryRuns)
        /\ \A k \in 1..Len(drought_periods) :
              LET p == drought_periods[k]
              IN  /\ <<p.start_index + 1, p.end_index + 1>> \in LongDryRuns
                  /\ p.dry_days = p.end_index - p.start_index + 1
                  /\ p.start_date = DateAt(p.start_index)
                  /\ p.end_date = DateAt(p.end_index)
        /\ \A j, k \in 1..Len(drought_periods) :
              j < k => drought_periods[j].end_index < drought_periods[k].start_index
        /\ (precipitation = ExampleSeries /\ dry_threshold = 10) =>
              /\ Len(drought_periods) = 2
              /\ drought_periods[1].start_date = 1
              /\ drought_periods[1].end_date = 5
              /\ drought_periods[1].dry_days = 5
              /\ drought_periods[2].start_date = 7
              /\ drought_periods[2].end_date = 10
              /\ drought_periods[2].dry_days = 4

C3_Witness ==
    /\ SegDone
    /\ precipitation = ExampleSeries
    /\ dry_threshold = 10
    /\ Len(drought_periods) = 2
    /\ drought_periods[2].end_index = NDays - 1

(***************************************************************************)
(*                     Properties of assess_drought_risk                   *)
(***************************************************************************)
Assessed == ~IsNone(risk_assessment)
\* The call did not take the except branch.
NotFailed(a) == a.risk_level # "Indéterminé"

\* Très Faible < Faible < Modéré < Élevé < Très Élevé
LevelOrd(level) ==
    CASE level = "Très Faible" -> 0
      [] level = "Faible" -> 1
      [] level = "Modéré" -> 2
      [] level = "Élevé" -> 3
      [] level = "Très Élevé" -> 4

\* The five contributions as the specification tabulates them.
SpiPoints(x) ==
    IF x <= -20 THEN 40 ELSE IF x <= -15 THEN 30 ELSE IF x <= -10 THEN 20
    ELSE IF x <= -5 THEN 10 ELSE 0
DeficitPoints(x) == IF x > 60 THEN 30 ELSE IF x > 40 THEN 20 ELSE IF x > 20 THEN 10 ELSE 0
DryDaysPoints(x) == IF x > 20 THEN 20 ELSE IF x > 10 THEN 10 ELSE 0
HeatPoints(x) == IF x > 50 THEN 10 ELSE 0
SoilPoints(x) == IF x < 20 THEN 15 ELSE IF x < 30 THEN 10 ELSE 0

\* C4: for every IndicatorSet the returned risk_score is the uncapped sum of
\* the five tabulated contributions; the example set scores 115.
C4_AdditiveScore ==
    (Assessed /\ indicators \in IndicatorSets) =>
        /\ risk_assessment.risk_score =
              SpiPoints(indicators.spi_mean)
            + DeficitPoints(indicators.precipitation_deficit)
            + DryDaysPoints(indicators.consecutive_dry_days)
            + HeatPoints(indicators.heat_stress)
            + SoilPoints(indicators.soil_moisture_mean)
        /\ indicators = ExampleIndicatorSet => risk_assessment.risk_score = 115

C4_Witness ==
    /\ Assessed
    /\ indicators = ExampleIndicatorSet
    /\ risk_assessment.risk_score = 115

\* The level the classification gives a score.
LevelOfScore(x) ==
    IF x >= 70 THEN "Très Élevé" ELSE IF x >= 50 THEN "Élevé"
    ELSE IF x >= 30 THEN "Modéré" ELSE IF x >= 15 THEN "Faible" ELSE "Très Faible"

\* C5: whenever assess_drought_risk does not fail, the returned level is the
\* band of the returned score (>= 70, >= 50, >= 30, >= 15, else), so of two
\* assessments the one with the higher score never has the lower level.
C5_LevelFromScore ==
    /\ (Assessed /\ NotFailed(risk_assessment)) =>
          risk_assessment.risk_level = LevelOfScore(risk_assessment.risk_score)
    /\ (Assessed /\ ~IsNone(risk_prev) /\ NotFailed(risk_assessment)
          /\ NotFailed(risk_prev.assessment)
          /\ risk_prev.assessment.risk_score <= risk_assessment.risk_score) =>
          LevelOrd(risk_prev.assessment.risk_level)
              <= LevelOrd(risk_assessment.risk_level)

C5_Witness ==
    /\ Assessed
    /\ ~IsNone(risk_prev)
    /\ risk_prev.assessment.risk_level = "Modéré"
    /\ risk_prev.assessment.risk_score = 40
    /\ risk_assessment.risk_level = "Élevé"
    /\ risk_assessment.risk_score = 50

\* C6: of two IndicatorSets that differ only in precipitation_deficit, the
\* one with the larger deficit has a risk_score, and a level, that is not
\* lower.
C6_MonotonicInDeficit ==
    (Assessed /\ ~IsNone(risk_prev)) =>
        LET a == risk_prev.assessment
            b == risk_assessment
            da == risk_prev.indicators.precipitation_deficit
            db == indicators.precipitation_deficit
        IN  /\ [risk_prev.indicators EXCEPT !.precipitation_deficit = db] = indicators
            /\ da <= db => /\ a.risk_score <= b.risk_score
                           /\ LevelOrd(a.risk_level) <= LevelOrd(b.risk_level)
            /\ db <= da => /\ b.risk_score <= a.risk_score
                           /\ LevelOrd(b.risk_level) <= LevelOrd(a.risk_level)

C6_Witness ==
    /\ Assessed
    /\ ~IsNone(risk_prev)
    /\ risk_prev.indicators.precipitation_deficit = 41
    /\ indicators.precipitation_deficit = 61
    /\ risk_prev.assessment.risk_score + 10 = risk_assessment.risk_score
    /\ LevelOrd(risk_prev.assessment.risk_level) < LevelOrd(risk_assessment.risk_level)

\* C7: the risk_score of every RiskAssessment returned lies in 0..100.
C7_ScoreWithin100 ==
    Assessed => risk_assessment.risk_score \in 0..100


(***************************************************************************)
(*            Properties of generate_group_alert and of the parser         *)
(***************************************************************************)
GroupReturned == grp_pc \in {"returned", "displayed"}
AlertProduced == GroupReturned /\ ~IsNone(group_alert)
HighLevels == {"Élevé", "Très Élevé"}

\* The samples whose analysis succeeded, by position in the sample, read
\* off the record of what happened to each sample.
OkPositions == {i \in 1..Len(sample_outcomes) : sample_outcomes[i].kind = "ok"}
OkCount == Cardinality(OkPositions)
ScoreAt(i) == assess_drought_risk(sample_outcomes[i].ind).risk_score
LevelAt(i) == assess_drought_risk(sample_outcomes[i].ind).risk_level
RECURSIVE SumScores(_)
SumScores(S) ==
    IF S = {} THEN 0 ELSE LET i == SetMin(S) IN ScoreAt(i) + SumScores(S \ {i})
OkScoreSum == SumScores(OkPositions)
OkHighCount == Cardinality({i \in OkPositions : LevelAt(i) \in HighLevels})
\* The localities of the successful samples, in sample order.
RECURSIVE OkLocalities(_)
OkLocalities(n) ==
    IF n = 0 THEN <<>>
    ELSE IF n \in OkPositions THEN Append(OkLocalities(n - 1), sample_localities[n])
    ELSE OkLocalities(n - 1)

SixFields ==
    {"titre_groupe", "evaluation", "zones_prioritaires", "actions_coordonnees",
     "periode", "urgence"}
ListFields == {"zones_prioritaires", "actions_coordonnees"}
FieldFilled(parsed, f) ==
    /\ f \in DOMAIN parsed
    /\ parsed[f] # <<>>
    /\ f \in ListFields => \A i \in 1..Len(parsed[f]) : parsed[f][i] # <<>>

\* C1: for every group risk level, name, type, average score and sample
\* list, parsing the text generate_fallback_group_alert returns yields all
\* six fields, each present and non-empty.
C1_RoundTripRecoversSixFields ==
    grp_pc = "displayed" => \A f \in SixFields : FieldFilled(parsed_alert, f)

\* C8: whenever every successfully analysed sample has level Élevé or Très
\* Élevé (high_risk_ratio = 1.0), the group level is Très Élevé, whatever
\* the average score.
C8_AllHighIsTresEleve ==
    (AlertProduced
        /\ \A i \in 1..Len(group_indicators) :
              group_indicators[i].risk_level \in HighLevels) =>
        /\ group_alert.ratio_risque_eleve.num = group_alert.ratio_risque_eleve.den
        /\ group_alert.niveau_risque_groupe = "Très Élevé"

C8_Witness ==
    /\ AlertProduced
    /\ Len(group_indicators) = 3
    /\ \A i \in 1..3 : group_indicators[i].risk_level = "Élevé"
    /\ group_alert.score_risque_moyen.num < 70 * group_alert.score_risque_moyen.den
    /\ group_alert.niveau_risque_groupe = "Très Élevé"

\* C9: the group level is the first matching rule of the cascade
\* (ratio >= 0.7 or avg >= 70: Très Élevé; ratio >= 0.4 or avg >= 50: Élevé;
\* ratio >= 0.2 or avg >= 30: Modéré; else Faible), with avg and ratio taken
\* over the successfully analysed samples.
C9_CascadeFirstMatch ==
    AlertProduced =>
        LET n == OkCount
            h == OkHighCount
            t == OkScoreSum
            level == group_alert.niveau_risque_groupe
        IN  /\ n >= 1
            /\ level =
                  IF 10 * h >= 7 * n \/ t >= 70 * n THEN "Très Élevé"
                  ELSE IF 10 * h >= 4 * n \/ t >= 50 * n THEN "Élevé"
                  ELSE IF 10 * h >= 2 * n \/ t >= 30 * n THEN "Modéré"
                  ELSE "Faible"

C9_Witness ==
    /\ AlertProduced
    /\ OkCount = 3
    /\ OkHighCount = 1
    /\ OkScoreSum >= 50 * 3
    /\ OkScoreSum < 70 * 3
    /\ group_alert.niveau_risque_groupe = "Élevé"

BatchReturned == batch_pc = "returned" /\ group_by \in {"region", "zone"}

\* Group k had at least one successful sample and its processing did not raise.
GroupSucceeded(k) ==
    /\ ~batch_runs[k].raises
    /\ \E j \in DOMAIN batch_runs[k].outcomes : batch_runs[k].outcomes[j].kind = "ok"

RECURSIVE SucceededUpTo(_)
SucceededUpTo(k) ==
    IF k = 0 THEN <<>>
    ELSE IF GroupSucceeded(k) THEN Append(SucceededUpTo(k - 1), k)
    ELSE SucceededUpTo(k - 1)

\* The positions of the groups that succeeded, in the order of the loop.
SucceededGroups == SucceededUpTo(Len(batch_runs))

\* C11: when generate_alerts_by_group returns for 'region' or 'zone', the list
\* holds exactly one alert for each group that had at least one successful
\* sample and did not raise, in the order of the groups, and nothing else:
\* no entry for the other groups, and no None or error placeholder.
C11_OneAlertPerSuccessfulGroup ==
    BatchReturned =>
        /\ Len(alerts) = Len(SucceededGroups)
        /\ \A n \in 1..Len(alerts) :
              /\ ~IsNone(alerts[n])
              /\ alerts[n].groupe_nom = groups[SucceededGroups[n]].name
              /\ alerts[n].groupe_type = group_by
              /\ alerts[n].localites_echantillon # <<>>

\* A batch of two groups has returned: one raised or had no successful
\* sample, the other one's alert is the only entry.
C11_Witness ==
    /\ BatchReturned
    /\ Len(groups) = 2
    /\ Len(alerts) = 1
    /\ \E k \in 1..2 : batch_runs[k].raises

\* C12: generate_alerts_by_group returns a value for every group_by selector
\* and never lets a failure reach its caller: no call ends by raising.
C12_NoFailurePropagates == batch_pc # "raised"

(***************************************************************************)
(*               Properties of calculate_drought_indicators                *)
(***************************************************************************)
IndReturned == ind_pc = "returned"

TwelveKeys ==
    {"spi", "spi_mean", "precipitation_deficit", "consecutive_dry_days",
     "avg_temperature", "max_temperature", "heat_stress", "soil_moisture_mean",
     "soil_moisture_min", "et0_mean", "water_balance", "humidity_mean"}

\* The input is None, has no dates, or makes a step of the computation fail.
DefaultCase ==
    \/ IsNone(climate_data)
    \/ ~(IndicatorInputKeys \subseteq DOMAIN climate_data)
    \/ Len(climate_data.dates) = 0

\* C13: calculate_drought_indicators always returns the same twelve keys; for
\* a None input, an input without dates or an input on which a step fails the
\* values are the defaults: spi_mean 0, deficit 0, dry days 0, heat stress 0,
\* soil moisture 50, humidity 65, et0 4 mm, water balance 0.
C13_TwelveKeysAndDefaults ==
    IndReturned =>
        /\ DOMAIN indicator_set = TwelveKeys
        /\ DefaultCase =>
              /\ indicator_set.spi_mean = Num(0)
              /\ indicator_set.precipitation_deficit = Num(0)
              /\ indicator_set.consecutive_dry_days = 0
              /\ indicator_set.heat_stress = Num(0)
              /\ indicator_set.soil_moisture_mean = Num(50)
              /\ indicator_set.humidity_mean = Num(65)
              /\ indicator_set.et0_mean = Num(400)
              /\ indicator_set.water_balance = 0
              /\ indicator_set.avg_temperature = Num(25)
              /\ indicator_set.max_temperature = 30
              /\ indicator_set.soil_moisture_min = 30
              /\ indicator_set.spi = [i \in {0} |-> Num(0)]

\* A call on data with dates but without its 'et0' series has returned.
C13_Witness ==
    /\ IndReturned
    /\ ~IsNone(climate_data)
    /\ "dates" \in DOMAIN climate_data
    /\ Len(climate_data.dates) > 0
    /\ "et0" \notin DOMAIN climate_data

\* The sign of an SPI value the model computes: -1, 0 or 1.
Sign(n) == IF n > 0 THEN 1 ELSE IF n < 0 THEN -1 ELSE 0
SpiSign(v) == IF "dev" \in DOMAIN v THEN Sign(v.dev.num) ELSE Sign(v.num)

\* The points the mean is taken over for index i: the whole series when it
\* has fewer than 7 points, the trailing window otherwise.
MeanBase(i) ==
    IF Len(climate_data.precipitation) < 7 THEN climate_data.precipitation
    ELSE Window(climate_data.precipitation, i, 30)

\* C14: the SPI of a point strictly above the mean is positive and the SPI of
\* a point strictly below the mean is negative.  Stated for the values that
\* are z-scores or 0 (short series, fallback, non-finite quantile); the sign
\* of a fitted quantile is left open.
C14_SpiSignFollowsDeviation ==
    (IndReturned /\ ~DefaultCase) =>
        \A i \in DOMAIN indicator_set.spi :
            LET v == indicator_set.spi[i]
                x == climate_data.precipitation[i + 1]
                w == MeanBase(i)
            IN  "fit_of" \notin DOMAIN v =>
                    /\ Len(w) * x > SumSeq(w) => SpiSign(v) = 1
                    /\ Len(w) * x < SumSeq(w) => SpiSign(v) = -1

(***************************************************************************)
(*                 Properties of parse_group_alert_message                 *)
(***************************************************************************)
ParseReturned == parse_pc = "returned"

\* The field a tagged line sets, and the value it sets it to, read off the
\* line alone.
FieldOfLine(line) == CHOOSE f \in SixFields : f \in DOMAIN ParseLine(EmptyDict, line)
ValueOfLine(line) == ParseLine(EmptyDict, line)[FieldOfLine(line)]

\* C17: the parser accepts the six tagged lines in any order and with any
\* subset missing: the value of a tag present in the text is the one its line
\* carries, wherever the line stands, and every one of the six fields is in
\* the result, those of absent tags with an empty value.
C17_AnyOrderAndEmptyDefaults ==
    ParseReturned =>
        /\ \A k \in 1..Len(parse_text) :
              /\ FieldOfLine(parse_text[k]) \in DOMAIN parse_result
              /\ parse_result[FieldOfLine(parse_text[k])] = ValueOfLine(parse_text[k])
        /\ \A f \in SixFields :
              /\ f \in DOMAIN parse_result
              /\ (\A k \in 1..Len(parse_text) : FieldOfLine(parse_text[k]) # f)
                    => parse_result[f] = <<>>

(***************************************************************************)
(*            Properties of the forecasts and the simulated data           *)
(***************************************************************************)
\* The last two operations were the same call.
SameCallTwice ==
    /\ ~IsNone(fc_prev)
    /\ ~IsNone(fc_last)
    /\ fc_prev.op = fc_last.op
    /\ fc_prev.args = fc_last.args

SyntheticTypes == {"30days", "90days", "1year", "5years"}

\* The series f of a forecast, or NoneVal when the forecast has none.
SeriesOf(call, f) == Get(call.value, f, NoneVal)

C16_NoCrossCallState ==
    (SameCallTwice
         /\ \/ fc_last.op \in {"get_simulated_climate_data", "simulate_relative_humidity"}
            \/ fc_last.op = "get_forecast_data" /\ fc_last.args[3] \in SyntheticTypes) =>
        fc_prev.value = fc_last.value

\* The horizons from the shortest to the longest.
HorizonRank(forecast_type) ==
    CASE forecast_type = "10days" -> 1
      [] forecast_type = "30days" -> 2
      [] forecast_type = "90days" -> 3
      [] forecast_type = "1year"  -> 4
      [] forecast_type = "5years" -> 5

ForecastAssessed(call) ==
    /\ ~IsNone(call)
    /\ call.op = "get_forecast_data"
    /\ ~IsNone(call.risk)

\* x >= y for Ratios
RGeq(x, y) == x.num * y.den >= y.num * x.den

\* C18: the confidence of a forecast RiskAssessment is 0.7 for 30 days, 0.6
\* for 90 days, 0.5 for 1 year and 5 years, lies in [0,1], is the same for
\* the same horizon, and of two forecasts the one with the longer horizon
\* never has the higher confidence, 10 days included.
C18_ConfidenceFallsWithHorizon ==
    /\ ForecastAssessed(fc_last) =>
          /\ RGeq(fc_last.risk.confidence, Num(0))
          /\ RGeq(Num(1), fc_last.risk.confidence)
          /\ fc_last.args[3] = "30days" => fc_last.risk.confidence = Ratio(7, 10)
          /\ fc_last.args[3] = "90days" => fc_last.risk.confidence = Ratio(6, 10)
          /\ fc_last.args[3] \in {"1year", "5years"} =>
                fc_last.risk.confidence = Ratio(5, 10)
    /\ (ForecastAssessed(fc_prev) /\ ForecastAssessed(fc_last)) =>
          /\ fc_prev.args[3] = fc_last.args[3] =>
                fc_prev.risk.confidence = fc_last.risk.confidence
          /\ HorizonRank(fc_prev.args[3]) < HorizonRank(fc_last.args[3]) =>
                RGeq(fc_prev.risk.confidence, fc_last.risk.confidence)

(***************************************************************************)
(*                      Properties of FloodCalculator                      *)
(***************************************************************************)
FloodAssessed == flood_pc = "done" /\ flood_result.alert_level # "Inconnu"

\* The first 24 hourly precipitation values of weather_data, read off the
\* argument.
HoursGiven == Get(Get(weather_data, "hourly", EmptyDict), "precipitation", <<0>>)
Rain24 == {k \in 1..Len(HoursGiven) : k <= 24}
MaxHourly == IF Rain24 = {} THEN 0 ELSE SetMax({HoursGiven[k] : k \in Rain24})
RECURSIVE SumOver(_)
SumOver(S) == IF S = {} THEN 0
              ELSE LET k == CHOOSE x \in S : TRUE
                   IN  HoursGiven[k] + SumOver(S \ {k})
Total24h == SumOver(Rain24)

\* composite * min(max_hourly / 50, 2), before the cap at 1
IntensityAdjusted ==
    LET composite == flood_result.risk_score
    IN  IF MaxHourly >= 2 * 50 THEN Ratio(2 * composite.num, composite.den)
        ELSE Ratio(MaxHourly * composite.num, 50 * composite.den)

\* min(x, 1) >= tenths / 10, for tenths <= 10
CappedAtLeast(x, tenths) == 10 * x.num >= tenths * x.den

BucketOfAdjusted ==
    IF CappedAtLeast(IntensityAdjusted, 8) THEN "Alerte Maximale"
    ELSE IF CappedAtLeast(IntensityAdjusted, 6) THEN "Alerte"
    ELSE IF CappedAtLeast(IntensityAdjusted, 4) THEN "Pré-alerte"
    ELSE "Vigilance"

ConfiguredTuple(level) ==
    CASE level = "Vigilance" ->
            [color |-> "green", delay |-> "72-48h", actions |-> "Surveillance renforcée"]
      [] level = "Pré-alerte" ->
            [color |-> "yellow", delay |-> "48-24h", actions |-> "Préparation communautaire"]
      [] level = "Alerte" ->
            [color |-> "orange", delay |-> "24-6h",
             actions |-> "Mise en sécurité biens/matériels"]
      [] level = "Alerte Maximale" ->
            [color |-> "red", delay |-> "<6h", actions |-> "Évacuation populations"]

\* C19: whenever calculate_risk has assessed a locality, the alert level is
\* the bucket of adjusted = min(composite * min(max_hourly / 50, 2), 1)
\* (>= 0.8 Alerte Maximale, >= 0.6 Alerte, >= 0.4 Pré-alerte, else Vigilance)
\* and the alert_details returned are the tuple configured for that level.
C19_LevelIsBucketOfAdjusted ==
    FloodAssessed =>
        /\ flood_result.alert_level = BucketOfAdjusted
        /\ flood_result.details.alert_details = ConfiguredTuple(flood_result.alert_level)

\* A locality assessed at Alerte Maximale, with the red tuple, on a composite
\* score below 0.8 that the intensity of the rain raised.
C19_Witness ==
    /\ FloodAssessed
    /\ flood_result.alert_level = "Alerte Maximale"
    /\ flood_result.details.alert_details.delay = "<6h"
    /\ 10 * flood_result.risk_score.num < 8 * flood_result.risk_score.den

\* f of the flash-flood guidance, in tenths
FfgFactorTenths(flood_type) ==
    CASE flood_type = "Côtière" -> 8
      [] flood_type = "Pluviale" -> 10
      [] flood_type = "Fluviale" -> 12

\* 0.6 * max_hourly / (50 * f) + 0.4 * total_24h / (200 * f), before the cap
FfgUncapped(flood_type) ==
    Ratio(6 * MaxHourly * 200 + 4 * Total24h * 50, 50 * 200 * FfgFactorTenths(flood_type))

\* x = min(y, 1) for fractions x and y
IsCapOf(x, y) ==
    IF y.num >= y.den THEN x.num = x.den ELSE x.num * y.den = y.num * x.den

FfgOfGivenRain(flood_type) == _calculate_ffg(First24(HoursGiven), flood_type)

\* C20: for the (non-negative) rain given, the FFG of a Côtière, Pluviale or
\* Fluviale locality is min(0.6 * max_hourly / (50 f) + 0.4 * total_24h /
\* (200 f), 1) with f = 0.8, 1.0, 1.2; it lies in [0,1]; for the same rain
\* Côtière >= Pluviale >= Fluviale; and with max_hourly = 60 and type
\* Pluviale it is at least 0.6.
C20_FfgFormulaAndOrder ==
    FloodAssessed =>
        LET ffg == flood_result.details.ffg_score
            flood_type == flood_result.details.flood_type
        IN  /\ QLeq(Num(0), ffg) /\ QLeq(ffg, Num(1))
            /\ flood_type \in {"Côtière", "Pluviale", "Fluviale"} =>
                  IsCapOf(ffg, FfgUncapped(flood_type))
            /\ QLeq(FfgOfGivenRain("Pluviale"), FfgOfGivenRain("Côtière"))
            /\ QLeq(FfgOfGivenRain("Fluviale"), FfgOfGivenRain("Pluviale"))
            /\ (flood_type = "Pluviale" /\ MaxHourly = 60) => QLeq(Q(6, 10), ffg)

\* A Pluviale locality assessed on 24 rainy hours with a 60 mm peak, the
\* FFG below its cap and above that of the same rain on a Fluviale locality.
C20_Witness ==
    /\ FloodAssessed
    /\ flood_result.details.flood_type = "Pluviale"
    /\ MaxHourly = 60
    /\ flood_result.details.precipitation_24h > 60
    /\ flood_result.details.ffg_score.num < flood_result.details.ffg_score.den
    /\ ~QLeq(flood_result.details.ffg_score, FfgOfGivenRain("Fluviale"))

(***************************************************************************)
(*                 Properties of the indicators' formulas                  *)
(***************************************************************************)
\* The call was made on complete data of at least one day.
IndComputed == IndReturned /\ ~DefaultCase /\ Len(climate_data.precipitation) >= 1

\* Hundredths of a millimetre fallen over the series, and its length N.
IndTotal == SumSeq(climate_data.precipitation)
IndDays == Len(climate_data.precipitation)

\* avg >= 3 * N, avg being IndTotal / IndDays hundredths of a millimetre
AvgReachesReference == IndTotal >= 300 * IndDays * IndDays

\* C21: on complete data of N >= 1 days, precipitation_deficit is
\* max(0, 1 - avg / (3 * N)) * 100 with avg the mean daily precipitation; it
\* lies in [0,100] and is 0 exactly when avg >= 3 * N.
C21_DeficitAgainstPeriodReference ==
    IndComputed =>
        LET deficit == indicator_set.precipitation_deficit
            reference == 300 * IndDays * IndDays
        IN  /\ deficit.den > 0
            /\ deficit.num >= 0 /\ deficit.num <= 100 * deficit.den
            /\ (deficit.num = 0) <=> AvgReachesReference
            /\ ~AvgReachesReference =>
                  Q(deficit.num, deficit.den) = Q(100 * (reference - IndTotal), reference)

\* A series of three days with rain on one of them, the deficit strictly
\* between 0 and 100.
C21_Witness ==
    /\ IndComputed
    /\ IndDays = 3
    /\ IndTotal = 500
    /\ indicator_set.precipitation_deficit.num > 0
    /\ indicator_set.precipitation_deficit.num < 100 * indicator_set.precipitation_deficit.den

(***************************************************************************)
(*                 Properties of calculate_drought_risk                    *)
(***************************************************************************)
\* The forecast the last assessment was made on, its length, the hundredths
\* of a millimetre it totals and its days below 1.0 mm.
FcPrecip == fc_last.value.precipitation
FcDays == Len(FcPrecip)
FcTotal == RSum(FcPrecip)
FcDryDays == Cardinality({k \in 1..FcDays : FcPrecip[k].num < 100 * FcPrecip[k].den})

\* total precipitation less total et0 (less 3 mm a day without et0)
FcBalance ==
    IF "et0" \in DOMAIN fc_last.value
    THEN LET e == RSum(fc_last.value.et0)
         IN  Ratio(FcTotal.num * e.den - e.num * FcTotal.den, FcTotal.den * e.den)
    ELSE Ratio(FcTotal.num - 300 * FcDays * FcTotal.den, FcTotal.den)

\* P and W of the score
FcP ==
    IF FcTotal.num < 100 * FcDays * FcTotal.den THEN 50
    ELSE IF FcTotal.num < 200 * FcDays * FcTotal.den THEN 30
    ELSE IF FcTotal.num < 300 * FcDays * FcTotal.den THEN 15 ELSE 0
FcW ==
    IF FcBalance.num < -5000 * FcBalance.den THEN 20
    ELSE IF FcBalance.num < -2000 * FcBalance.den THEN 10 ELSE 0

\* C22: the risk_score of a forecast assessment is P + 30 * (days below
\* 1.0 mm) / (days) + W, with P = 50, 30, 15 or 0 for an average
\* precipitation below 1, 2, 3 mm or not, and W = 20, 10 or 0 for a water
\* balance below -50, -20 mm or not, capped at 100; it lies in [0,100].
C22_ForecastScoreFormula ==
    ForecastAssessed(fc_last) =>
        LET score == fc_last.risk.risk_score
            sum   == Ratio((FcP + FcW) * FcDays + 30 * FcDryDays, FcDays)
            expected == IF sum.num > 100 * sum.den THEN Num(100) ELSE sum
        IN  /\ score.num * expected.den = expected.num * score.den
            /\ score.num >= 0
            /\ score.num <= 100 * score.den

\* An assessment with some but not all days dry and points from the water
\* balance.
C22_Witness ==
    /\ ForecastAssessed(fc_last)
    /\ FcDryDays > 0 /\ FcDryDays < FcDays
    /\ FcW > 0
    /\ FcP < 50

\* C23: the level calculate_drought_risk gives a forecast's score is the
\* level assess_drought_risk gives the same score (a score is at or above a
\* whole threshold exactly when its integer part is).
C23_SameLevelAsDroughtScorer ==
    ForecastAssessed(fc_last) =>
        LET score == fc_last.risk.risk_score
        IN  fc_last.risk.risk_level = RiskLevel(score.num \div score.den).risk_level

(***************************************************************************)
(*          Further properties of detect_drought_periods                   *)
(***************************************************************************)
\* Hundredths of a millimetre fallen on the days of a period.
RECURSIVE RainBetween(_, _)
RainBetween(first, last) ==
    IF first > last THEN 0 ELSE precipitation[first] + RainBetween(first + 1, last)
PeriodRain(period) == RainBetween(period.start_index + 1, period.end_index + 1)

\* dry_days * avg_deficit, in hundredths of a millimetre
PeriodIntensityScore(period) == period.dry_days * dry_threshold - PeriodRain(period)

IntensityBucket(score) ==
    IF score > 1000 THEN "extrême"
    ELSE IF score > 500 THEN "sévère"
    ELSE IF score > 200 THEN "modérée"
    ELSE "faible"

\* C24: every period emitted has avg_deficit = threshold - (precipitation of
\* its days) / dry_days and intensity = the bucket of dry_days * avg_deficit
\* (> 10 extrême, > 5 sévère, > 2 modérée, else faible), whether a wet day or
\* the end of the series closed it.
C24_DeficitAndIntensity ==
    \A j \in 1..Len(drought_periods) :
        LET period == drought_periods[j]
        IN  /\ period.avg_deficit.num * period.dry_days
                  = (dry_threshold * period.dry_days - PeriodRain(period))
                        * period.avg_deficit.den
            /\ period.intensity = IntensityBucket(PeriodIntensityScore(period))

\* Two periods returned, the first closed by a wet day and the second by the
\* end of the series, both above the mildest intensity.
C24_Witness ==
    /\ SegDone
    /\ Len(drought_periods) = 2
    /\ drought_periods[1].end_index < NDays - 1
    /\ drought_periods[2].end_index = NDays - 1
    /\ drought_periods[1].intensity = "sévère"
    /\ drought_periods[2].intensity # "faible"

(***************************************************************************)
(*               Further properties of generate_group_alert                *)
(***************************************************************************)
\* C25: the level of a group alert is one of Très Élevé, Élevé, Modéré and
\* Faible, and a group with at least one successfully analysed sample at
\* Élevé or Très Élevé (of the at most 3 sampled) is at least Modéré.
C25_GroupLevelSetAndFloor ==
    AlertProduced =>
        /\ group_alert.niveau_risque_groupe \in {"Très Élevé", "Élevé", "Modéré", "Faible"}
        /\ Len(sample_localities) <= 3
        /\ OkHighCount >= 1 => group_alert.niveau_risque_groupe # "Faible"

\* Three samples analysed, one of them Élevé and the others without risk:
\* the average is below 30 and the group is Modéré by its ratio of 1/3.
C25_Witness ==
    /\ AlertProduced
    /\ OkCount = 3
    /\ OkHighCount = 1
    /\ OkScoreSum < 30 * 3
    /\ group_alert.niveau_risque_groupe = "Modéré"

\* The line of an alert text that opens with the tag, without its
\* indentation and tag.
TaggedLine(text, tag) ==
    LET k == CHOOSE i \in 1..Len(text) :
                 Len(text[i]) >= 3 /\ text[i][2] = tag
    IN  SubSeq(text[k], 4, Len(text[k]))

\* C26: a Faible group gets the Modéré text: the title prefix VIGILANCE, the
\* period 1-2 mois, the urgency MODÉRÉE, the whole text being that of a
\* Modéré group with the same name, type, score and samples.
C26_FaibleUsesModereTemplate ==
    (AlertProduced /\ group_alert.niveau_risque_groupe = "Faible") =>
        /\ group_alert.alerte =
              generate_fallback_group_alert(group.name, group.type, "Modéré",
                                            group_alert.score_risque_moyen,
                                            group_indicators)
        /\ TaggedLine(group_alert.alerte, "TITRE_GROUPE:")[1] = "VIGILANCE"
        /\ TaggedLine(group_alert.alerte, "PÉRIODE:") = <<"1-2 mois">>
        /\ TaggedLine(group_alert.alerte, "URGENCE:") = <<"MODÉRÉE">>

\* A group of three analysed samples, none at risk, classified Faible.
C26_Witness ==
    /\ AlertProduced
    /\ OkCount = 3
    /\ group_alert.niveau_risque_groupe = "Faible"
    /\ TaggedLine(group_alert.alerte, "URGENCE:") = <<"MODÉRÉE">>

\* C27: with or without an API key, the 'alerte' field of a group alert is
\* the text generate_fallback_group_alert gives for the group's name, type,
\* level, average score and samples.
C27_AlertTextIsFallback ==
    AlertProduced =>
        group_alert.alerte =
            generate_fallback_group_alert(group.name, group.type,
                                          group_alert.niveau_risque_groupe,
                                          group_alert.score_risque_moyen,
                                          group_indicators)

\* An alert produced with a key configured, for a group at Élevé.
C27_Witness ==
    /\ AlertProduced
    /\ api_key # ""
    /\ group_alert.niveau_risque_groupe = "Élevé"
    /\ TaggedLine(group_alert.alerte, "TITRE_GROUPE:")[1] = "ALERTE"

\* C28: on complete data of n points the SPI mapping has the keys 0..n-1 if
\* n < 7 and 6..n-1 if n >= 7, and spi_mean is the mean of the values of
\* the keys present (0 when there is none).
C28_SpiKeysAndMean ==
    (IndReturned /\ ~DefaultCase) =>
        LET n == Len(climate_data.precipitation)
            spi == indicator_set.spi
        IN  /\ n < 7 => DOMAIN spi = 0..(n - 1)
            /\ n >= 7 => DOMAIN spi = 6..(n - 1)
            /\ IF DOMAIN spi = {} THEN indicator_set.spi_mean = Num(0)
               ELSE /\ DOMAIN indicator_set.spi_mean.mean_of = DOMAIN spi
                    /\ \A i \in DOMAIN spi :
                          indicator_set.spi_mean.mean_of[i] = spi[i]

\* A series of 7 points: the indices 0..5 have no SPI value, index 6 has one
\* and the mean is taken over it alone.
C28_Witness ==
    /\ IndReturned
    /\ ~DefaultCase
    /\ Len(climate_data.precipitation) = 7
    /\ DOMAIN indicator_set.spi = {6}
    /\ DOMAIN indicator_set.spi_mean.mean_of = {6}

(***************************************************************************)
(*     detect_drought_periods against calculate_consecutive_dry_days       *)
(***************************************************************************)
LongestDryRun == calculate_consecutive_dry_days(precipitation, dry_threshold)
PeriodLengths == {drought_periods[j].dry_days : j \in 1..Len(drought_periods)}

\* C29: on the same series and threshold, when the longest dry run counted by
\* calculate_consecutive_dry_days is m >= 3 the segmenter returns at least one
\* period and the largest dry_days among them is m; when m < 3 it returns no
\* period.
C29_SegmenterAgreesWithIndicator ==
    SegDone =>
        IF LongestDryRun >= 3
        THEN /\ Len(drought_periods) >= 1
             /\ LongestDryRun \in PeriodLengths
             /\ \A d \in PeriodLengths : d <= LongestDryRun
        ELSE drought_periods = <<>>

\* Two periods of different length returned, the longer one being the run
\* the indicator counts, with more dry days in the series than that run.
C29_Witness ==
    /\ SegDone
    /\ Len(drought_periods) = 2
    /\ drought_periods[1].dry_days # drought_periods[2].dry_days
    /\ LongestDryRun \in PeriodLengths
    /\ LongestDryRun >= 4
    /\ Cardinality({k \in 1..NDays : DryAt(k)}) > LongestDryRun

(***************************************************************************)
(*                 Range of the composite flood score                      *)
(***************************************************************************)
SoilMoistureGiven == Get(weather_data, "soil_moisture", <<50>>)[1]

\* C30: with non-negative precipitation, humidity in 0..100, soil moisture
\* >= 0 and altitude >= 0, the composite score returned by calculate_risk
\* lies in [0,1]; Alerte Maximale is returned only when the largest hourly
\* precipitation is at least 40 mm (0.8 times the hourly threshold), and the
\* level is Vigilance when the largest hourly precipitation is 0, whatever
\* the score.
C30_ScoreRangeAndIntensityGate ==
    FloodAssessed =>
        /\ flood_result.risk_score.den > 0
        /\ 0 <= flood_result.risk_score.num
        /\ flood_result.risk_score.num <= flood_result.risk_score.den
        /\ flood_result.alert_level = "Alerte Maximale" =>
               10 * MaxHourly >= 8 * thresholds.intensity_hourly
        /\ MaxHourly = 0 => flood_result.alert_level = "Vigilance"

\* A locality with soil moisture above the saturation threshold and a
\* largest hourly rain of exactly the hourly threshold, assessed at Alerte
\* Maximale on a score between 0.8 and 1.
C30_Witness ==
    /\ FloodAssessed
    /\ SoilMoistureGiven > thresholds.soil_moisture
    /\ MaxHourly = thresholds.intensity_hourly
    /\ flood_result.alert_level = "Alerte Maximale"
    /\ 10 * flood_result.risk_score.num >= 8 * flood_result.risk_score.den

=============================================================================
